---- MODULE Spec2Model ----
(***************************************************************************)
(* Project Synapse: the differential-privacy budget ledger, the permission *)
(* engine, the federated indexer and the privacy-aware query engine.       *)
(*                                                                         *)
(* Numbers are fixed point.  A privacy budget (epsilon) is an integer      *)
(* number of units of 1/BudgetScale, a similarity score an integer number  *)
(* of units of 1/ScoreScale.  The inputs are chosen so that the divisions  *)
(* the code performs (epsilon / k, budget / silos / max_results) are exact.*)
(***************************************************************************)
EXTENDS Integers, Sequences, FiniteSets, TLC

VARIABLES managers, last, now, permission_cache, silo_indexes, silo_order,
          global_index, query, queries_started, tasks

\* ------------------------------------------------------------------ units
\* 1.0 of privacy budget, in budget units (one unit is 0.05)
BudgetScale == 20
\* 1.0 of similarity score, in score units (one unit is 0.1)
ScoreScale == 10

\* -------------------------------------------------------- model parameters
\* global_privacy_budget given to the manager the application constructs
\* (0.2 here: two indexing runs of 0.1 exhaust it)
AppGlobalBudget == 4

\* the two DifferentialPrivacyManager objects a running server holds: the one
\* lifespan() constructs and hands to the indexer, and the one the query
\* engine constructs for itself
MgrIds == {"app", "engine"}
IndexerPM == "app"
EnginePM == "engine"

\* inputs of direct calls on a manager
EpsChoices == {8, 12}
ScoreChoices == {-2, 0, 8, 10, 12}
NoiseChoices == {-15, -1, 2, 15}
KChoices == {1, 2}
ItemsChoices == { <<>>, << <<"d", 7>> >>, << <<"a", 9>>, <<"b", 5>>, <<"c", 1>> >> }

\* ------------------------------------------------------------- sequences
RECURSIVE SumBudgets(_)
SumBudgets(log) ==
  IF log = <<>> THEN 0
  ELSE Head(log).privacy_budget + SumBudgets(Tail(log))

Min(a, b) == IF a <= b THEN a ELSE b
Max(a, b) == IF a >= b THEN a ELSE b

\* --------------------------------------------- DifferentialPrivacyManager
\* DifferentialPrivacyManager.__init__
NewManager(global_privacy_budget) ==
  [global_privacy_budget |-> global_privacy_budget,
   used_privacy_budget |-> 0,
   usage_log |-> <<>>]

\* default value of the constructor's global_privacy_budget (1.0)
DefaultGlobalBudget == BudgetScale

\* (mutant) the check forgets what was already spent
CheckPrivacyBudget_IgnoresUsed(m, requested_budget) ==
  requested_budget <= m.global_privacy_budget

\* (mutant) the check refuses a request that exactly exhausts the budget
CheckPrivacyBudget_Strict(m, requested_budget) ==
  (m.used_privacy_budget + requested_budget) < m.global_privacy_budget

\* _check_privacy_budget
CheckPrivacyBudget(m, requested_budget) ==
  (m.used_privacy_budget + requested_budget) <= m.global_privacy_budget

\* _consume_privacy_budget
ConsumePrivacyBudget(m, budget) ==
  [m EXCEPT !.used_privacy_budget = @ + budget]

\* PrivacyAccountant.record_mechanism_usage (the timestamp, the sensitivity
\* and the data size of a record are not read by any operation but the report)
RecordMechanismUsage(m, mechanism, privacy_budget) ==
  [m EXCEPT !.usage_log =
     Append(@, [mechanism |-> mechanism, privacy_budget |-> privacy_budget])]

\* get_remaining_budget
GetRemainingBudget(m) == m.global_privacy_budget - m.used_privacy_budget

\* PrivacyAccountant.get_usage_summary
GetUsageSummary(m) ==
  [total_mechanisms |-> Len(m.usage_log),
   total_budget_used |-> SumBudgets(m.usage_log)]

\* get_privacy_report
GetPrivacyReport(m) ==
  [global_budget |-> m.global_privacy_budget,
   used_budget |-> m.used_privacy_budget,
   remaining_budget |-> GetRemainingBudget(m),
   mechanism_usage |-> GetUsageSummary(m)]

\* reset_privacy_budget, with PrivacyAccountant.reset
ResetPrivacyBudget(m) ==
  [m EXCEPT !.used_privacy_budget = 0, !.usage_log = <<>>]

\* (mutant) no clamping
Clip_None(x, lo, hi) == x

\* np.clip
Clip(x, lo, hi) == IF x < lo THEN lo ELSE IF x > hi THEN hi ELSE x

\* (mutant) the fallback path consumes the budget it does not have
AddNoiseToScore_ConsumesAnyway(m, score, privacy_budget, noise) ==
  IF ~CheckPrivacyBudget(m, privacy_budget)
  THEN [mgr |-> ConsumePrivacyBudget(m, privacy_budget), ret |-> score,
        outcome |-> "fallback"]
  ELSE [mgr |-> ConsumePrivacyBudget(m, privacy_budget),
        ret |-> Clip(score + noise, 0, ScoreScale),
        outcome |-> "ok"]

\* add_noise_to_score; noise is the Laplace sample drawn by the call
AddNoiseToScore(m, score, privacy_budget, noise) ==
  IF ~CheckPrivacyBudget(m, privacy_budget)
  THEN [mgr |-> m, ret |-> score, outcome |-> "fallback"]
  ELSE [mgr |-> ConsumePrivacyBudget(m, privacy_budget),
        ret |-> Clip(score + noise, 0, ScoreScale),
        outcome |-> "ok"]

InsufficientBudget == "ValueError: Insufficient privacy budget"

\* add_noise_to_embeddings; the noisy embeddings themselves are not modelled
AddNoiseToEmbeddings(m, privacy_budget) ==
  IF ~CheckPrivacyBudget(m, privacy_budget)
  THEN [mgr |-> m, outcome |-> InsufficientBudget]
  ELSE [mgr |-> RecordMechanismUsage(ConsumePrivacyBudget(m, privacy_budget),
                                     "gaussian_noise", privacy_budget),
        outcome |-> "ok"]

\* create_private_histogram; the noisy counts are not modelled
CreatePrivateHistogram(m, privacy_budget) ==
  IF ~CheckPrivacyBudget(m, privacy_budget)
  THEN [mgr |-> m, outcome |-> InsufficientBudget]
  ELSE [mgr |-> RecordMechanismUsage(ConsumePrivacyBudget(m, privacy_budget),
                                     "laplace_histogram", privacy_budget),
        outcome |-> "ok"]

\* the loop of private_top_k over the sampled indices: one add_noise_to_score
\* call with privacy_budget / k per selected item
RECURSIVE TopKNoiseLoop(_, _, _, _, _, _)
TopKNoiseLoop(m, items_list, selected_indices, noises, per_item, result) ==
  IF selected_indices = <<>>
  THEN [mgr |-> m, result |-> result]
  ELSE LET item == items_list[Head(selected_indices)]
           r == AddNoiseToScore(m, item[2], per_item, Head(noises))
       IN TopKNoiseLoop(r.mgr, items_list, Tail(selected_indices),
                        Tail(noises), per_item,
                        Append(result, <<item[1], r.ret>>))

\* an insertion that puts an entry before the entries of equal score
RECURSIVE InsertByScoreDesc_TiesFirst(_, _)
InsertByScoreDesc_TiesFirst(sorted, x) ==
  IF sorted = <<>> THEN <<x>>
  ELSE IF Head(sorted)[2] > x[2]
       THEN <<Head(sorted)>> \o InsertByScoreDesc_TiesFirst(Tail(sorted), x)
       ELSE <<x>> \o sorted

\* list.sort(key=lambda x: x[1], reverse=True): a stable sort, descending
RECURSIVE InsertByScoreDesc(_, _)
InsertByScoreDesc(sorted, x) ==
  IF sorted = <<>> THEN <<x>>
  ELSE IF Head(sorted)[2] >= x[2]
       THEN <<Head(sorted)>> \o InsertByScoreDesc(Tail(sorted), x)
       ELSE <<x>> \o sorted

RECURSIVE SortByScoreDesc(_)
SortByScoreDesc(s) ==
  IF s = <<>> THEN <<>>
  ELSE InsertByScoreDesc(SortByScoreDesc(SubSeq(s, 1, Len(s) - 1)), s[Len(s)])

\* private_top_k without its sort: the pairs in the order they were drawn
PrivateTopK_Unsorted(m, items_list, k, privacy_budget, selected_indices, noises) ==
  IF ~CheckPrivacyBudget(m, privacy_budget)
  THEN [mgr |-> m, ret |-> <<>>, outcome |-> InsufficientBudget]
  ELSE IF items_list = <<>>
  THEN [mgr |-> m, ret |-> <<>>, outcome |-> "ok"]
  ELSE LET loop == TopKNoiseLoop(m, items_list, selected_indices, noises,
                                 privacy_budget \div k, <<>>)
       IN [mgr |-> ConsumePrivacyBudget(loop.mgr, privacy_budget),
           ret |-> loop.result, outcome |-> "ok"]

\* private_top_k; selected_indices is the sample np.random.choice draws
\* (min(k, len) distinct indices), noises the Laplace samples of the loop
PrivateTopK(m, items_list, k, privacy_budget, selected_indices, noises) ==
  IF ~CheckPrivacyBudget(m, privacy_budget)
  THEN [mgr |-> m, ret |-> <<>>, outcome |-> InsufficientBudget]
  ELSE IF items_list = <<>>
  THEN [mgr |-> m, ret |-> <<>>, outcome |-> "ok"]
  ELSE LET loop == TopKNoiseLoop(m, items_list, selected_indices, noises,
                                 privacy_budget \div k, <<>>)
       IN [mgr |-> ConsumePrivacyBudget(loop.mgr, privacy_budget),
           ret |-> SortByScoreDesc(loop.result),
           outcome |-> "ok"]

\* the samples np.random.choice(n, size, replace=False) can return
Samples(n, size) ==
  { s \in [1..size -> 1..n] : \A i, j \in 1..size : i # j => s[i] # s[j] }

\* ------------------------------------------------------------ the data
\* AccessLevel, with the ordinal both classification tables give it
AccessLevels == {"public", "internal", "confidential", "restricted"}

\* SiloMetadata of the silos; access_rules is the open key/value map
SiloIds == {"s1", "s2"}
Silos ==
  [s \in SiloIds |->
     IF s = "s1"
     THEN [silo_id |-> "s1", name |-> "Silo 1", organization_id |-> "acme",
           team_id |-> "eng", data_classification |-> "internal",
           last_indexed |-> <<>>,
           access_rules |-> [public_within_org |-> TRUE,
                             restricted_documents |-> {1}]]
     ELSE [silo_id |-> "s2", name |-> "Silo 2", organization_id |-> "acme",
           team_id |-> "ops", data_classification |-> "public",
           last_indexed |-> <<>>,
           access_rules |-> [allowed_teams |-> {"eng"}]]]

\* UserContext of the users; security_clearance "" and temporal_constraints
\* with no key stand for None
NoConstraints == [x \in {} |-> TRUE]
UserIds == {"alice", "bob", "dave"}
Users ==
  [u \in UserIds |->
     CASE u = "alice" ->
            [user_id |-> "alice", organization_id |-> "acme",
             team_ids |-> {"eng"}, access_levels |-> {"internal"},
             security_clearance |-> "", temporal_constraints |-> NoConstraints]
       [] u = "bob" ->
            [user_id |-> "bob", organization_id |-> "other",
             team_ids |-> {"ops"}, access_levels |-> {"restricted"},
             security_clearance |-> "", temporal_constraints |-> NoConstraints]
       [] OTHER ->
            [user_id |-> "dave", organization_id |-> "acme",
             team_ids |-> {"ops"}, access_levels |-> {},
             security_clearance |-> "", temporal_constraints |-> NoConstraints]]

\* the user_context a request carries: that of each user, and one that names
\* alice but lists no access level (the caller of the API writes it)
RequestIds == UserIds \cup {"alice, no levels"}
RequestContexts ==
  [r \in RequestIds |->
     IF r \in UserIds THEN Users[r]
     ELSE [Users["alice"] EXCEPT !.access_levels = {}]]

\* ------------------------------------------------------ PermissionEngine
\* the two PermissionEngine objects: FederatedIndexer.__init__ and
\* PrivacyAwareQueryEngine.__init__ each construct one
EngineIds == {"indexer", "engine"}

\* cache_ttl = timedelta(minutes=5); the clock counts minutes
CacheTTL == 5
\* _cache_permission cleans the cache when it holds more entries than this
CacheCleanThreshold == 1000
\* minute of the day (UTC) at which the clock starts: 17:56
StartMinuteOfDay == 1076

SetMax(S) == CHOOSE x \in S : \A y \in S : y <= x

\* classification_levels.get(level, default)
ClassificationLevel(level, default) ==
  CASE level = "public" -> 0
    [] level = "internal" -> 1
    [] level = "confidential" -> 2
    [] level = "restricted" -> 3
    [] OTHER -> default

\* clearance_hierarchy.get(clearance.lower(), default)
ClearanceLevel(clearance, default) ==
  CASE clearance = "public" -> 0
    [] clearance = "confidential" -> 1
    [] clearance = "secret" -> 2
    [] clearance = "top_secret" -> 3
    [] OTHER -> default

\* _compare_clearance_levels
CompareClearanceLevels(user_clearance, required_clearance) ==
  ClearanceLevel(user_clearance, 0) >= ClearanceLevel(required_clearance, 3)

\* _check_organizational_access
CheckOrganizationalAccess(silo, user) ==
  IF silo.organization_id = user.organization_id THEN TRUE
  ELSE IF "cross_org_permissions" \in DOMAIN user
  THEN IF "organizations" \in DOMAIN user.cross_org_permissions
       THEN silo.organization_id \in user.cross_org_permissions.organizations
       ELSE FALSE
  ELSE FALSE

\* (mutant) public_within_org opens the silo to other organizations too
CheckTeamAccess_PublicToAll(silo, user) ==
  \/ silo.team_id \in user.team_ids
  \/ /\ "allowed_teams" \in DOMAIN silo.access_rules
     /\ silo.access_rules.allowed_teams \cap user.team_ids # {}
  \/ /\ "public_within_org" \in DOMAIN silo.access_rules
     /\ silo.access_rules.public_within_org

\* _check_team_access
CheckTeamAccess(silo, user) ==
  LET access_rules == silo.access_rules IN
  IF silo.team_id \in user.team_ids THEN TRUE
  ELSE IF "allowed_teams" \in DOMAIN access_rules
          /\ access_rules.allowed_teams \cap user.team_ids # {}
  THEN TRUE
  ELSE IF "public_within_org" \in DOMAIN access_rules
          /\ access_rules.public_within_org
  THEN silo.organization_id = user.organization_id
  ELSE FALSE

\* (mutant) the user's level must exceed the silo's
CheckClassificationAccess_Strict(silo, user) ==
  SetMax({0} \cup {ClassificationLevel(l, 0) : l \in user.access_levels})
    > ClassificationLevel(silo.data_classification, 3)

\* _check_classification_access
CheckClassificationAccess(silo, user) ==
  LET required_level == ClassificationLevel(silo.data_classification, 3)
      user_max_level ==
        SetMax({0} \cup {ClassificationLevel(l, 0) : l \in user.access_levels})
  IN user_max_level >= required_level

\* the ISO timestamps callers write, and the minute of the clock each denotes
IsoMinutes ==
  ("2026-01-01T17:56:00" :> 0) @@ ("2026-01-01T17:59:00" :> 3)
  @@ ("2026-01-01T18:06:00" :> 10)

\* datetime.fromisoformat: <<minute>>, or <<>> for the ValueError a string
\* that is no ISO timestamp raises
FromIsoFormat(string) ==
  IF string \in DOMAIN IsoMinutes THEN <<IsoMinutes[string]>> ELSE <<>>

\* whether _check_temporal_constraints raises: both ends of the access
\* window are given and one of them does not parse
TemporalConstraintsRaise(user) ==
  LET constraints == user.temporal_constraints IN
  /\ {"access_start", "access_end"} \subseteq DOMAIN constraints
  /\ \/ FromIsoFormat(constraints.access_start) = <<>>
     \/ FromIsoFormat(constraints.access_end) = <<>>

\* _check_temporal_constraints at clock value t; times are minutes of the
\* model's clock, max_data_age_days is given in minutes
CheckTemporalConstraints(silo, user, t) ==
  LET constraints == user.temporal_constraints
      hour == ((StartMinuteOfDay + t) \div 60) % 24
  IN
  IF DOMAIN constraints = {} THEN TRUE
  ELSE IF {"access_start", "access_end"} \subseteq DOMAIN constraints
          /\ ~(FromIsoFormat(constraints.access_start)[1] <= t
                /\ t <= FromIsoFormat(constraints.access_end)[1])
  THEN FALSE
  ELSE IF "business_hours_only" \in DOMAIN constraints
          /\ constraints.business_hours_only
          /\ ~(9 <= hour /\ hour < 18)
  THEN FALSE
  ELSE IF "max_data_age_days" \in DOMAIN constraints
          /\ silo.last_indexed # <<>>
          /\ t - silo.last_indexed[1] > constraints.max_data_age_days
  THEN FALSE
  ELSE TRUE

\* _check_custom_rules, were a user without clearance to pass a minimum
CheckCustomRules_NoClearanceNeeded(silo, user) ==
  LET access_rules == silo.access_rules IN
  IF "required_roles" \in DOMAIN access_rules
  THEN FALSE
  ELSE IF "forbidden_users" \in DOMAIN access_rules
          /\ user.user_id \in access_rules.forbidden_users
  THEN FALSE
  ELSE IF "min_security_clearance" \in DOMAIN access_rules
          /\ user.security_clearance # ""
          /\ ~CompareClearanceLevels(user.security_clearance,
                                     access_rules.min_security_clearance)
  THEN FALSE
  ELSE IF "required_projects" \in DOMAIN access_rules
  THEN FALSE
  ELSE TRUE

\* _check_custom_rules
CheckCustomRules(silo, user) ==
  LET access_rules == silo.access_rules
      user_roles == IF "roles" \in DOMAIN user THEN user.roles ELSE {}
      user_projects ==
        IF "project_access" \in DOMAIN user THEN user.project_access ELSE {}
  IN
  IF "required_roles" \in DOMAIN access_rules
     /\ access_rules.required_roles \cap user_roles = {}
  THEN FALSE
  ELSE IF "forbidden_users" \in DOMAIN access_rules
          /\ user.user_id \in access_rules.forbidden_users
  THEN FALSE
  ELSE IF "min_security_clearance" \in DOMAIN access_rules
          /\ (user.security_clearance = ""
              \/ ~CompareClearanceLevels(user.security_clearance,
                                         access_rules.min_security_clearance))
  THEN FALSE
  ELSE IF "required_projects" \in DOMAIN access_rules
          /\ access_rules.required_projects \cap user_projects = {}
  THEN FALSE
  ELSE TRUE

\* cache_key = f"{user_context.user_id}:{silo_metadata.silo_id}"
CacheKey(silo, user) == user.user_id \o ":" \o silo.silo_id

\* (mutant) the cache is never consulted
GetCachedPermission_AlwaysMiss(cache, cache_key, t) == <<>>

\* (mutant) an entry is used however old it is
GetCachedPermission_NoExpiry(cache, cache_key, t) ==
  IF cache_key \in DOMAIN cache THEN <<cache[cache_key].result>> ELSE <<>>

\* _get_cached_permission: <<>> is None, <<b>> the cached decision
GetCachedPermission(cache, cache_key, t) ==
  IF cache_key \in DOMAIN cache /\ t - cache[cache_key].cached_time < CacheTTL
  THEN <<cache[cache_key].result>>
  ELSE <<>>

\* _clean_permission_cache
CleanPermissionCache(cache, t) ==
  LET expired_keys == {k \in DOMAIN cache : t - cache[k].cached_time > CacheTTL}
  IN [k \in DOMAIN cache \ expired_keys |-> cache[k]]

\* _cache_permission
CachePermission(cache, cache_key, result, t) ==
  LET c == (cache_key :> [cached_time |-> t, result |-> result]) @@ cache
  IN IF Cardinality(DOMAIN c) > CacheCleanThreshold
     THEN CleanPermissionCache(c, t)
     ELSE c

\* (mutant) the custom rules are not consulted
FiveChecks_SkipsCustomRules(silo, user, t) ==
  /\ CheckOrganizationalAccess(silo, user)
  /\ CheckTeamAccess(silo, user)
  /\ CheckClassificationAccess(silo, user)
  /\ CheckTemporalConstraints(silo, user, t)

\* the five checks of check_silo_access, in the order the code runs them
FiveChecks(silo, user, t) ==
  /\ CheckOrganizationalAccess(silo, user)
  /\ CheckTeamAccess(silo, user)
  /\ CheckClassificationAccess(silo, user)
  /\ CheckTemporalConstraints(silo, user, t)
  /\ CheckCustomRules(silo, user)

\* check_silo_access on the engine whose cache is given: the decision and
\* the cache the call leaves
CheckSiloAccess(cache, silo, user, t) ==
  LET cache_key == CacheKey(silo, user)
      cached_result == GetCachedPermission(cache, cache_key, t)
  IN IF cached_result # <<>>
     THEN [cache |-> cache, ret |-> cached_result[1]]
     ELSE LET decision == FiveChecks(silo, user, t)
          IN [cache |-> CachePermission(cache, cache_key, decision, t),
              ret |-> decision]

\* how check_silo_access ends: "ok" when it returns, "ValueError" when the
\* temporal check is reached and raises
CheckSiloAccessOutcome(cache, silo, user, t) ==
  IF GetCachedPermission(cache, CacheKey(silo, user), t) # <<>> THEN "ok"
  ELSE IF ~CheckOrganizationalAccess(silo, user) THEN "ok"
  ELSE IF ~CheckTeamAccess(silo, user) THEN "ok"
  ELSE IF ~CheckClassificationAccess(silo, user) THEN "ok"
  ELSE IF TemporalConstraintsRaise(user) THEN "ValueError"
  ELSE "ok"

\* (mutant) restricted_documents is not consulted
DocumentRules_IgnoresRestricted(sa, silo, doc_index, user) ==
  [cache |-> sa.cache, ret |-> sa.ret]

\* check_document_access once its call of check_silo_access has answered sa
DocumentRules(sa, silo, doc_index, user) ==
  LET access_rules == silo.access_rules
      can_access_restricted_docs ==
        IF "can_access_restricted_docs" \in DOMAIN user
        THEN user.can_access_restricted_docs ELSE FALSE
  IN IF ~sa.ret THEN [cache |-> sa.cache, ret |-> FALSE]
     ELSE IF "restricted_documents" \in DOMAIN access_rules
             /\ doc_index \in access_rules.restricted_documents
             /\ ~can_access_restricted_docs
     THEN [cache |-> sa.cache, ret |-> FALSE]
     ELSE [cache |-> sa.cache, ret |-> TRUE]

\* check_document_access
CheckDocumentAccess(cache, silo, doc_index, user, t) ==
  DocumentRules(CheckSiloAccess(cache, silo, user, t), silo, doc_index, user)

\* ------------------------------------------------------ FederatedIndexer
\* number of documents _retrieve_silo_documents returns for a silo
MockDocuments == 2
\* privacy_budget _generate_embeddings passes to add_noise_to_embeddings (0.1)
IndexingBudget == 2
\* find_candidate_silos includes a silo whose top score exceeds this (0.3)
CandidateThreshold == 3
\* score of a padding entry (index -1) of a search that finds too few vectors
NoHitScore == -1000

\* where an indexing run can fail: nowhere, while retrieving the documents,
\* or while building the local index (after the embeddings were noised)
IndexFailures == {"none", "retrieve", "faiss"}

\* (mutant) _index_silo that stores an empty index for the silo before the
\* steps that can fail
IndexSilo_StoresEarly(st, s, fail) ==
  LET noised == AddNoiseToEmbeddings(st.mgr, IndexingBudget)
      error == IF fail = "retrieve" THEN "retrieve"
               ELSE IF noised.outcome # "ok" THEN noised.outcome
               ELSE IF fail = "faiss" THEN "faiss" ELSE ""
      documents == IF error = "" THEN MockDocuments ELSE 0
  IN [mgr |-> IF error \in {"", "faiss"} THEN noised.mgr ELSE st.mgr,
      silo_indexes |-> (s :> [ntotal |-> documents, secure_hashes |-> documents,
                              document_count |-> documents]) @@ st.silo_indexes,
      silo_order |-> IF s \in DOMAIN st.silo_indexes THEN st.silo_order
                     ELSE Append(st.silo_order, s),
      jobs |-> Append(st.jobs,
                      [silo_id |-> s,
                       status |-> IF error = "" THEN "completed" ELSE "failed",
                       documents_processed |-> documents,
                       error_message |-> error])]

\* _index_silo on silo s; st holds the indexer's privacy manager and indexes
IndexSilo(st, s, fail) ==
  IF fail = "retrieve"
  THEN [st EXCEPT !.jobs = Append(@, [silo_id |-> s, status |-> "failed",
                                      documents_processed |-> 0,
                                      error_message |-> "retrieve"])]
  ELSE LET noised == AddNoiseToEmbeddings(st.mgr, IndexingBudget) IN
       IF noised.outcome # "ok"
       THEN [st EXCEPT !.jobs = Append(@, [silo_id |-> s, status |-> "failed",
                                           documents_processed |-> 0,
                                           error_message |-> noised.outcome])]
       ELSE IF fail = "faiss"
       THEN [st EXCEPT !.mgr = noised.mgr,
                       !.jobs = Append(@, [silo_id |-> s, status |-> "failed",
                                           documents_processed |-> 0,
                                           error_message |-> "faiss"])]
       ELSE [mgr |-> noised.mgr,
             silo_indexes |->
               (s :> [ntotal |-> MockDocuments,
                      secure_hashes |-> MockDocuments,
                      document_count |-> MockDocuments]) @@ st.silo_indexes,
             silo_order |-> IF s \in DOMAIN st.silo_indexes THEN st.silo_order
                            ELSE Append(st.silo_order, s),
             jobs |-> Append(st.jobs, [silo_id |-> s, status |-> "completed",
                                       documents_processed |-> MockDocuments,
                                       error_message |-> ""])]

\* the loop of build_global_index, were it to end at the first failed job
RECURSIVE IndexAll_StopsAtFailure(_, _, _)
IndexAll_StopsAtFailure(st, silos, fails) ==
  IF silos = <<>> \/ (st.jobs # <<>> /\ st.jobs[Len(st.jobs)].status = "failed")
  THEN st
  ELSE IndexAll_StopsAtFailure(IndexSilo(st, Head(silos), Head(fails)),
                               Tail(silos), Tail(fails))

\* the loop of build_global_index: one awaited _index_silo per silo
RECURSIVE IndexAll(_, _, _)
IndexAll(st, silos, fails) ==
  IF silos = <<>> THEN st
  ELSE IndexAll(IndexSilo(st, Head(silos), Head(fails)), Tail(silos), Tail(fails))

\* update_silo_index that makes an index for a silo it does not know
UpdateSiloIndex_CreatesIndex(mgr, indexes, silo_id, new_documents, fail) ==
  LET noised == AddNoiseToEmbeddings(mgr, IndexingBudget) IN
  [mgr |-> noised.mgr,
   silo_indexes |-> (silo_id :> [ntotal |-> new_documents,
                                 secure_hashes |-> 0,
                                 document_count |-> new_documents]) @@ indexes,
   ret |-> TRUE]

\* update_silo_index(silo_id, new_documents) with new_documents documents;
\* fail tells whether adding to the FAISS index raises
UpdateSiloIndex(mgr, indexes, silo_id, new_documents, fail) ==
  IF silo_id \notin DOMAIN indexes
  THEN [mgr |-> mgr, silo_indexes |-> indexes, ret |-> FALSE]
  ELSE LET noised == AddNoiseToEmbeddings(mgr, IndexingBudget) IN
       IF noised.outcome # "ok"
       THEN [mgr |-> mgr, silo_indexes |-> indexes, ret |-> FALSE]
       ELSE IF fail
       THEN [mgr |-> noised.mgr, silo_indexes |-> indexes, ret |-> FALSE]
       ELSE [mgr |-> noised.mgr,
             silo_indexes |->
               [indexes EXCEPT ![silo_id].ntotal = @ + new_documents,
                               ![silo_id].document_count = @ + new_documents],
             ret |-> TRUE]

\* index.search(query, k) on a silo's index: profile lists the documents by
\* decreasing similarity to the query as <<score, document index>>; the
\* answer holds k entries, padded with index -1
SearchIndex(index, profile, k) ==
  LET found == SelectSeq(profile, LAMBDA h : h[2] < index.ntotal)
  IN [i \in 1..k |-> IF i <= Len(found) THEN found[i] ELSE <<NoHitScore, -1>>]

\* (mutant) the index is searched before the permission is looked at
FindCandidateStep_SearchesFirst(acc, index, s, profile, user, t) ==
  LET sa == CheckSiloAccess(acc.cache, Silos[s], user, t)
      top == SearchIndex(index, profile, 1)
  IN [cache |-> sa.cache,
      access |-> (s :> sa.ret) @@ acc.access,
      searched |-> acc.searched \cup {s},
      candidate_silos |->
        IF sa.ret /\ top[1][1] > CandidateThreshold
        THEN Append(acc.candidate_silos, s) ELSE acc.candidate_silos]

\* one round of the loop of find_candidate_silos: the permission check, then
\* for a granted silo the top-1 search and the threshold test
FindCandidateStep(acc, index, s, profile, user, t) ==
  LET sa == CheckSiloAccess(acc.cache, Silos[s], user, t)
      top == SearchIndex(index, profile, 1)
  IN [cache |-> sa.cache,
      access |-> (s :> sa.ret) @@ acc.access,
      searched |-> IF sa.ret THEN acc.searched \cup {s} ELSE acc.searched,
      candidate_silos |->
        IF sa.ret /\ top[1][1] > CandidateThreshold
        THEN Append(acc.candidate_silos, s) ELSE acc.candidate_silos]

\* the loop of find_candidate_silos over silo_indexes.items()
RECURSIVE FindCandidateLoop(_, _, _, _, _, _)
FindCandidateLoop(acc, indexes, order, sim, user, t) ==
  IF order = <<>> THEN acc
  ELSE FindCandidateLoop(
         FindCandidateStep(acc, indexes[Head(order)], Head(order),
                           sim[Head(order)], user, t),
         indexes, Tail(order), sim, user, t)

\* find_candidate_silos: the candidates, the indexer's permission cache after
\* the call, the decision check_silo_access gave per silo, and the silos whose
\* index was searched
FindCandidateSilos(cache, indexes, order, sim, user, t) ==
  FindCandidateLoop([cache |-> cache, access |-> [x \in {} |-> TRUE],
                     searched |-> {}, candidate_silos |-> <<>>],
                    indexes, order, sim, user, t)

\* ----------------------------------------------- PrivacyAwareQueryEngine
\* _check_data_classification_access: "true", "false", or the ValueError of
\* max() over no access level
CheckDataClassificationAccess(data_level, user) ==
  IF user.access_levels = {} THEN "ValueError"
  ELSE IF SetMax({ClassificationLevel(l, 0) : l \in user.access_levels})
            >= ClassificationLevel(data_level, 3)
  THEN "true" ELSE "false"

\* the loop of _filter_accessible_silos
RECURSIVE FilterLoop(_, _, _, _, _)
FilterLoop(acc, candidate_silos, indexes, user, t) ==
  IF candidate_silos = <<>> \/ acc.raised THEN acc
  ELSE LET s == Head(candidate_silos) IN
       IF s \notin DOMAIN indexes
       THEN FilterLoop(acc, Tail(candidate_silos), indexes, user, t)
       ELSE LET sa == CheckSiloAccess(acc.cache, Silos[s], user, t)
                dc == CheckDataClassificationAccess(Silos[s].data_classification, user)
            IN IF ~sa.ret
               THEN FilterLoop([acc EXCEPT !.cache = sa.cache],
                               Tail(candidate_silos), indexes, user, t)
               ELSE FilterLoop(
                      [cache |-> sa.cache,
                       silo_ok |-> acc.silo_ok \cup {s},
                       raised |-> dc = "ValueError",
                       accessible_silos |->
                         IF dc = "true" THEN Append(acc.accessible_silos, s)
                         ELSE acc.accessible_silos],
                      Tail(candidate_silos), indexes, user, t)

\* _filter_accessible_silos: the accessible silos, the engine's permission
\* cache after the call, the silos check_silo_access granted, and whether the
\* classification gate raised
FilterAccessibleSilos(cache, candidate_silos, indexes, user, t) ==
  FilterLoop([cache |-> cache, silo_ok |-> {}, raised |-> FALSE,
              accessible_silos |-> <<>>],
             candidate_silos, indexes, user, t)

\* the branch of _retrieve_document_content on the answer da of
\* check_document_access: None when refused, the mock content otherwise
ContentIfAllowed(da) ==
  [cache |-> da.cache, ret |-> da.ret, checked |-> {da.ret}]

\* (mutant) the content is returned without the document check
RetrieveDocumentContent_Unchecked(cache, s, doc_index, user, t) ==
  [cache |-> cache, ret |-> TRUE, checked |-> {}]

\* _retrieve_document_content: whether content is returned (not None), the
\* engine's permission cache after the document check, and what
\* check_document_access answered
RetrieveDocumentContent(cache, s, doc_index, user, t) ==
  ContentIfAllowed(CheckDocumentAccess(cache, Silos[s], doc_index, user, t))

\* the KnowledgeResult _execute_silo_search constructs
KnowledgeResult(s, doc_index, private_score, privacy_score) ==
  [silo_id |-> s, document_index |-> doc_index,
   relevance_score |-> private_score, privacy_score |-> privacy_score,
   access_level |-> Silos[s].data_classification]

\* the rest of a round of the loop of _execute_silo_search once the
\* document check has answered: the KnowledgeResult is appended when content
\* came back
SearchHitRetrieved(acc, ns, content, s, doc_index, per_hit) ==
  [mgr |-> ns.mgr, cache |-> content.cache, raised |-> FALSE,
   doc_ok |-> IF TRUE \in content.checked
              THEN acc.doc_ok \cup {<<s, doc_index>>}
              ELSE acc.doc_ok,
   results |-> IF content.ret
               THEN Append(acc.results,
                           KnowledgeResult(s, doc_index, ns.ret, per_hit))
               ELSE acc.results]

\* the rest of a round once add_noise_to_score has answered ns; fails makes
\* the round raise before the document is retrieved
SearchHitNoised(acc, ns, fails, s, doc_index, user, per_hit, t) ==
  IF fails
  THEN [acc EXCEPT !.mgr = ns.mgr, !.raised = TRUE]
  ELSE SearchHitRetrieved(acc, ns,
                          RetrieveDocumentContent(acc.cache, s, doc_index, user, t),
                          s, doc_index, per_hit)

\* one round of the loop of _execute_silo_search, on a hit that is no padding
SearchHit(acc, hit, noise, fails, s, user, per_hit, t) ==
  SearchHitNoised(acc, AddNoiseToScore(acc.mgr, hit[1], per_hit, noise),
                  fails, s, hit[2], user, per_hit, t)

\* the loop of _execute_silo_search over the hits; fail_at = i makes the
\* handling of hit i raise after its score was noised
RECURSIVE SearchLoop(_, _, _, _, _, _, _, _, _)
SearchLoop(acc, i, hits, noises, fail_at, s, user, per_hit, t) ==
  IF i > Len(hits) \/ acc.raised THEN acc
  ELSE SearchLoop(IF hits[i][2] = -1 THEN acc
                  ELSE SearchHit(acc, hits[i], noises[i], fail_at = i,
                                 s, user, per_hit, t),
                  i + 1, hits, noises, fail_at, s, user, per_hit, t)

\* (mutant) the except branch returns what was collected before the failure
SearchReturn_KeepsPartial(loop, max_results) ==
  [mgr |-> loop.mgr, cache |-> loop.cache, doc_ok |-> loop.doc_ok,
   raised |-> loop.raised,
   ret |-> SubSeq(loop.results, 1, Min(max_results, Len(loop.results)))]

\* what _execute_silo_search returns after its loop: results[:max_results],
\* or [] from the except branch
SearchReturn(loop, max_results) ==
  [mgr |-> loop.mgr, cache |-> loop.cache, doc_ok |-> loop.doc_ok,
   raised |-> loop.raised,
   ret |-> IF loop.raised THEN <<>>
           ELSE SubSeq(loop.results, 1, Min(max_results, Len(loop.results)))]

\* the state _execute_silo_search starts its loop in: fail_at = 0 makes the
\* similarity search raise
SearchStart(mgr, cache, fail_at) ==
  [mgr |-> mgr, cache |-> cache, raised |-> fail_at = 0,
   doc_ok |-> {}, results |-> <<>>]

\* (mutant) what the except branch would leave if it gave the budget back
RefundIfRaised(r, mgr) == [r EXCEPT !.mgr = IF r.raised THEN mgr ELSE @]

\* (mutant) the except branch gives back what the failed task consumed
ExecuteSiloSearch_RefundsOnFailure(mgr, cache, index, s, profile, user, privacy_budget, max_results, noises, fail_at, t) ==
  RefundIfRaised(
    SearchReturn(SearchLoop(SearchStart(mgr, cache, fail_at), 1,
                            SearchIndex(index, profile, max_results * 2),
                            noises, fail_at, s, user,
                            privacy_budget \div max_results, t),
                 max_results),
    mgr)

\* (mutant) each hit is noised with the whole slice of its silo
ExecuteSiloSearch_UndividedBudget(mgr, cache, index, s, profile, user, privacy_budget, max_results, noises, fail_at, t) ==
  SearchReturn(SearchLoop(SearchStart(mgr, cache, fail_at), 1,
                          SearchIndex(index, profile, max_results * 2),
                          noises, fail_at, s, user, privacy_budget, t),
               max_results)

\* _execute_silo_search: the engine's privacy manager and permission cache
\* after the task, and what the task returns; the hits are those of
\* index.search(query, max_results * 2), each noised with
\* privacy_budget / max_results
ExecuteSiloSearch(mgr, cache, index, s, profile, user, privacy_budget, max_results, noises, fail_at, t) ==
  SearchReturn(SearchLoop(SearchStart(mgr, cache, fail_at), 1,
                          SearchIndex(index, profile, max_results * 2),
                          noises, fail_at, s, user,
                          privacy_budget \div max_results, t),
               max_results)

\* _calculate_diversity_bonus and ranking_score, times 100 * len(results):
\* 0.7 * relevance - 0.2 * privacy_score + 0.1 * (1 - same_silo / total)
RankingScore(result, results) ==
  LET total_results == Len(results)
      same_silo_count ==
        Cardinality({i \in 1..Len(results) : results[i].silo_id = result.silo_id})
  IN 7 * result.relevance_score * total_results
     - result.privacy_score * total_results
     + 10 * (total_results - same_silo_count)

\* _rank_results without the sort: the results as they were collected
RankResults_AsCollected(results) == results

\* _rank_results: sorted(results, key=ranking_score, reverse=True)
RankResults(results) ==
  LET keyed == [i \in 1..Len(results) |->
                  <<results[i], RankingScore(results[i], results)>>]
      ranked == SortByScoreDesc(keyed)
  IN [i \in 1..Len(ranked) |-> ranked[i][1]]

RECURSIVE Flatten(_)
Flatten(ss) == IF ss = <<>> THEN <<>> ELSE Head(ss) \o Flatten(Tail(ss))

\* ------------------------------------------------------- the last call
\* what the most recent operation was called with and what it gave back
\* (used_before is the manager's used_privacy_budget when it was called)
MkLast(op, mgr, used_before, eps, score, k, items, outcome, ret, ret_list) ==
  [op |-> op, mgr |-> mgr, used_before |-> used_before, eps |-> eps,
   score |-> score, k |-> k, items |-> items, outcome |-> outcome,
   ret |-> ret, ret_list |-> ret_list]

NoCall == MkLast("none", "none", 0, 0, 0, 0, <<>>, "none", 0, <<>>)

\* ---------------------------------------------------------------- state
vars == <<managers, last, now, permission_cache, silo_indexes, silo_order,
          global_index, query, queries_started, tasks>>

\* the variables of the indexer, the engines and the query in progress
systemVars == <<now, permission_cache, silo_indexes, silo_order,
                global_index, query, queries_started, tasks>>

\* inputs of queries and of indexing requests
MaxResultsChoices == {1, 2}
PrivacyBudgetChoices == {16}
\* for each silo, its documents by decreasing similarity to the query, as
\* <<score, document index>>
SimChoices ==
  { [s \in SiloIds |-> IF s = "s1" THEN << <<9, 0>>, <<4, 1>> >>
                                   ELSE << <<12, 1>>, <<-1, 0>> >>],
    [s \in SiloIds |-> IF s = "s1" THEN << <<3, 1>>, <<2, 0>> >>
                                   ELSE << <<4, 1>>, <<4, 0>> >>] }
SearchNoiseChoices == {-1, 15}
SilosChoices == { <<>>, <<"s1">>, <<"s1", "s2">> }

\* the clock advances in steps of TickMinutes up to MaxTime
TickMinutes == 5
MaxTime == 5
\* how many queries are routed
MaxQueries == 1

NoSim == [s \in SiloIds |-> <<>>]
NoAccess == [x \in {} |-> TRUE]

\* no query in progress and none answered yet.  Besides the locals of
\* route_query the record keeps, for the query in progress: the request's
\* include_silos and exclude_silos (<<>> for None, <<S>> for a list of the
\* silo ids S); access, the
\* decision check_silo_access gave find_candidate_silos per silo; searched,
\* the silos find_candidate_silos searched; silo_ok and doc_ok, the silos and
\* documents check_silo_access and check_document_access granted to the
\* engine; raised, the tasks that ended in the except branch
IdleQuery ==
  [pc |-> "idle", outcome |-> "none", user |-> "none", max_results |-> 0,
   privacy_budget |-> 0, sim |-> NoSim, candidate_silos |-> <<>>,
   access |-> NoAccess, searched |-> {}, accessible_silos |-> <<>>,
   privacy_budget_per_silo |-> 0, pending |-> <<>>, silo_results |-> <<>>,
   raised |-> {}, silo_ok |-> {}, doc_ok |-> {}, final_results |-> <<>>,
   include_silos |-> <<>>, exclude_silos |-> <<>>]

\* server.py lifespan(): the application's manager goes to the indexer;
\* PrivacyAwareQueryEngine.__init__ makes a manager of its own, and each of
\* the indexer and the query engine makes its own PermissionEngine
Init ==
  /\ managers = [m \in MgrIds |->
        IF m = IndexerPM THEN NewManager(AppGlobalBudget)
        ELSE NewManager(DefaultGlobalBudget)]
  /\ last = NoCall
  /\ now = 0
  /\ permission_cache = [e \in EngineIds |-> [x \in {} |-> TRUE]]
  /\ silo_indexes = [x \in {} |-> TRUE]
  /\ silo_order = <<>>
  /\ global_index = [x \in {} |-> TRUE]
  /\ query = IdleQuery
  /\ queries_started = 0
  /\ tasks = <<>>

\* -------------------------------------- direct calls on a privacy manager
CallCheckPrivacyBudget(m, eps) ==
  /\ last' = MkLast("_check_privacy_budget", m, managers[m].used_privacy_budget, eps, 0, 0, <<>>,
                    IF CheckPrivacyBudget(managers[m], eps) THEN "true" ELSE "false",
                    0, <<>>)
  /\ UNCHANGED managers
  /\ UNCHANGED systemVars

CallAddNoiseToEmbeddings(m, eps) ==
  LET r == AddNoiseToEmbeddings(managers[m], eps) IN
  /\ managers' = [managers EXCEPT ![m] = r.mgr]
  /\ last' = MkLast("add_noise_to_embeddings", m, managers[m].used_privacy_budget, eps, 0, 0, <<>>, r.outcome, 0, <<>>)
  /\ UNCHANGED systemVars

CallAddNoiseToScore(m, score, eps, noise) ==
  LET r == AddNoiseToScore(managers[m], score, eps, noise) IN
  /\ managers' = [managers EXCEPT ![m] = r.mgr]
  /\ last' = MkLast("add_noise_to_score", m, managers[m].used_privacy_budget, eps, score, 0, <<>>, r.outcome, r.ret, <<>>)
  /\ UNCHANGED systemVars

CallCreatePrivateHistogram(m, eps) ==
  LET r == CreatePrivateHistogram(managers[m], eps) IN
  /\ managers' = [managers EXCEPT ![m] = r.mgr]
  /\ last' = MkLast("create_private_histogram", m, managers[m].used_privacy_budget, eps, 0, 0, <<>>, r.outcome, 0, <<>>)
  /\ UNCHANGED systemVars

CallPrivateTopK(m, items, k, eps) ==
  \E sel \in Samples(Len(items), Min(k, Len(items))) :
    \E noises \in [1..Len(sel) -> NoiseChoices] :
      LET r == PrivateTopK(managers[m], items, k, eps, sel, noises) IN
      /\ managers' = [managers EXCEPT ![m] = r.mgr]
      /\ last' = MkLast("private_top_k", m, managers[m].used_privacy_budget, eps, 0, k, items, r.outcome, 0, r.ret)
      /\ UNCHANGED systemVars

CallResetPrivacyBudget(m) ==
  /\ managers' = [managers EXCEPT ![m] = ResetPrivacyBudget(managers[m])]
  /\ last' = MkLast("reset_privacy_budget", m, managers[m].used_privacy_budget, 0, 0, 0, <<>>, "ok", 0, <<>>)
  /\ UNCHANGED systemVars

\* the manager the direct calls are made on: a default-constructed one
DirectPM == EnginePM

Next ==
  \/ \E eps \in EpsChoices : CallCheckPrivacyBudget(DirectPM, eps)
  \/ \E eps \in EpsChoices : CallAddNoiseToEmbeddings(DirectPM, eps)
  \/ \E eps \in EpsChoices, score \in ScoreChoices, noise \in NoiseChoices :
       CallAddNoiseToScore(DirectPM, score, eps, noise)
  \/ \E eps \in EpsChoices : CallCreatePrivateHistogram(DirectPM, eps)
  \/ \E eps \in EpsChoices, k \in KChoices, items \in ItemsChoices :
       CallPrivateTopK(DirectPM, items, k, eps)
  \/ CallResetPrivacyBudget(DirectPM)

\* the privacy manager under any sequence of direct calls
Spec == Init /\ [][Next]_vars

\* ------------------------------------------------- the running application
\* time passes
Tick ==
  /\ now + TickMinutes <= MaxTime
  /\ now' = now + TickMinutes
  /\ UNCHANGED <<managers, last, permission_cache, silo_indexes, silo_order,
                 global_index, query, queries_started, tasks>>

\* asyncio.gather(*indexing_jobs, return_exceptions=True): the arguments are
\* the IndexingJob records _index_silo returned, and gather accepts only
\* awaitables, so that it raises TypeError as soon as there is one job
GatherJobs(jobs) ==
  IF jobs = <<>> THEN [raised |-> FALSE, completed_jobs |-> <<>>]
  ELSE [raised |-> TRUE, completed_jobs |-> <<>>]

\* the summary of build_global_index: no completed job is an Exception, and
\* IndexingJob has no field privacy_budget_used, so that the sum is empty
GlobalMetadata(silos, completed_jobs) ==
  [total_silos |-> Len(silos), indexed_silos |-> Len(completed_jobs),
   privacy_budget_used |-> 0]

\* the body of build_global_index(silos): every silo is indexed in turn,
\* then the jobs are gathered and the summary is stored
BuildGlobalIndexRun(silos, fails) ==
  LET st == IndexAll([mgr |-> managers[IndexerPM], silo_indexes |-> silo_indexes,
                      silo_order |-> silo_order, jobs |-> <<>>], silos, fails)
      gathered == GatherJobs(st.jobs)
  IN [mgr |-> st.mgr, silo_indexes |-> st.silo_indexes,
      silo_order |-> st.silo_order, jobs |-> st.jobs,
      outcome |-> IF gathered.raised THEN "TypeError" ELSE "ok",
      global_index |-> IF gathered.raised THEN global_index
                       ELSE GlobalMetadata(silos, gathered.completed_jobs)]

\* build_global_index(silos) of the running application
BuildGlobalIndex(silos, fails) ==
  /\ \E r \in {BuildGlobalIndexRun(silos, fails)} :
       /\ managers' = [managers EXCEPT ![IndexerPM] = r.mgr]
       /\ silo_indexes' = r.silo_indexes
       /\ silo_order' = r.silo_order
       /\ global_index' = r.global_index
  /\ UNCHANGED <<last, now, permission_cache, query, queries_started, tasks>>

\* POST /privacy/reset: reset_privacy_budget on the application's manager
ResetApplicationBudget ==
  /\ managers' = [managers EXCEPT ![IndexerPM] = ResetPrivacyBudget(@)]
  /\ UNCHANGED <<last, now, permission_cache, silo_indexes, silo_order,
                 global_index, query, queries_started, tasks>>

\* route_query up to the await of asyncio.gather: find_candidate_silos,
\* _filter_accessible_silos, the budget split and the creation of the tasks
RouteQueryStartOn(u, max_results, privacy_budget, sim, include_silos, exclude_silos) ==
  LET user == RequestContexts[u]
      fc == FindCandidateSilos(permission_cache["indexer"], silo_indexes,
                               silo_order, sim, user, now)
      fa == FilterAccessibleSilos(permission_cache["engine"], fc.candidate_silos,
                                  silo_indexes, user, now)
  IN
  /\ query.pc = "idle"
  /\ queries_started' = queries_started + 1
  /\ permission_cache' = [indexer |-> fc.cache, engine |-> fa.cache]
  /\ query' =
       [IdleQuery EXCEPT
          !.pc = IF fa.raised THEN "idle" ELSE "gather",
          !.outcome = IF fa.raised THEN "ValueError" ELSE "pending",
          !.user = u, !.max_results = max_results,
          !.privacy_budget = privacy_budget, !.sim = sim,
          !.candidate_silos = fc.candidate_silos, !.access = fc.access,
          !.searched = fc.searched, !.silo_ok = fa.silo_ok,
          !.accessible_silos = fa.accessible_silos,
          !.privacy_budget_per_silo =
             privacy_budget \div Max(Len(fa.accessible_silos), 1),
          !.pending = IF fa.raised THEN <<>> ELSE fa.accessible_silos,
          !.include_silos = include_silos, !.exclude_silos = exclude_silos]
  /\ UNCHANGED <<managers, last, now, silo_indexes, silo_order, global_index,
                 tasks>>

\* route_query on a request that leaves include_silos and exclude_silos None
RouteQueryStart(u, max_results, privacy_budget, sim) ==
  RouteQueryStartOn(u, max_results, privacy_budget, sim, <<>>, <<>>)

\* one _execute_silo_search task runs (the tasks run in the order gather
\* created them); noises are the Laplace samples of the hits found, fail_at
\* the hit whose handling raises (-1: none, 0: the search itself)
ExecuteSiloSearchTask(noises, fail_at) ==
  /\ query.pc = "gather"
  /\ query.pending # <<>>
  /\ \E s \in {Head(query.pending)} :
       \E r \in {ExecuteSiloSearch(managers[EnginePM], permission_cache["engine"],
                                   silo_indexes[s], s, query.sim[s],
                                   RequestContexts[query.user],
                                   query.privacy_budget_per_silo, query.max_results,
                                   noises, fail_at, now)} :
         /\ managers' = [managers EXCEPT ![EnginePM] = r.mgr]
         /\ permission_cache' = [permission_cache EXCEPT !["engine"] = r.cache]
         /\ query' = [query EXCEPT !.pending = Tail(@),
                                   !.silo_results = Append(@, r.ret),
                                   !.raised = IF r.raised THEN @ \cup {<<s, fail_at>>}
                                              ELSE @,
                                   !.doc_ok = @ \cup r.doc_ok]
  /\ UNCHANGED <<last, now, silo_indexes, silo_order, global_index, queries_started, tasks>>

\* route_query after gather: merge, rank, truncate and return
RouteQueryFinish ==
  /\ query.pc = "gather"
  /\ query.pending = <<>>
  /\ LET all_results == Flatten(query.silo_results)
         ranked_results == RankResults(all_results)
     IN query' = [IdleQuery EXCEPT
          !.outcome = "returned", !.user = query.user,
          !.max_results = query.max_results,
          !.privacy_budget = query.privacy_budget,
          !.silo_ok = query.silo_ok, !.doc_ok = query.doc_ok,
          !.raised = query.raised,
          !.include_silos = query.include_silos,
          !.exclude_silos = query.exclude_silos,
          !.final_results =
             SubSeq(ranked_results, 1, Min(query.max_results, Len(ranked_results)))]
  /\ UNCHANGED <<managers, last, now, permission_cache, silo_indexes, silo_order,
                 global_index, queries_started, tasks>>

NextSystem ==
  \/ Tick
  \/ \E silos \in SilosChoices :
       \E fails \in [1..Len(silos) -> IndexFailures] : BuildGlobalIndex(silos, fails)
  \/ ResetApplicationBudget
  \/ /\ queries_started < MaxQueries
     /\ \E u \in UserIds, max_results \in MaxResultsChoices,
           privacy_budget \in PrivacyBudgetChoices, sim \in SimChoices :
          RouteQueryStart(u, max_results, privacy_budget, sim)
  \/ \E fail_at \in -1..MockDocuments :
       \E noises \in [1..MockDocuments -> SearchNoiseChoices] :
         ExecuteSiloSearchTask(noises, fail_at)
  \/ RouteQueryFinish

\* the indexer and the query engine of a running server
SpecSystem == Init /\ [][NextSystem]_vars

\* -------------------------------------------- requests with silo lists
\* include_silos / exclude_silos of a request: None, or a list of silo ids
SiloListChoices == { <<>>, <<{"s1"}>>, <<{"s2"}>> }

\* both silos are indexed and alice sends one request naming silos to
\* include or to exclude; no search fails
NextSiloLists ==
  \/ BuildGlobalIndex(<<"s1", "s2">>, <<"none", "none">>)
  \/ /\ queries_started < MaxQueries
     /\ \E max_results \in MaxResultsChoices, privacy_budget \in PrivacyBudgetChoices,
           sim \in SimChoices, include_silos \in SiloListChoices,
           exclude_silos \in SiloListChoices :
          RouteQueryStartOn("alice", max_results, privacy_budget, sim,
                            include_silos, exclude_silos)
  \/ \E noises \in [1..MockDocuments -> SearchNoiseChoices] :
       ExecuteSiloSearchTask(noises, -1)
  \/ RouteQueryFinish

SpecSiloLists == Init /\ [][NextSiloLists]_vars

\* ---------------------------------- requests that repeat under a user id
\* how many queries are routed one after the other
MaxRepeatedQueries == 2

\* the similarities of SimChoices, and a query the document alice may read
\* in s1 is dissimilar to (cosine similarity -0.2)
RepeatedSimChoices ==
  SimChoices \cup
    { [s \in SiloIds |-> IF s = "s1" THEN << <<4, 1>>, <<-2, 0>> >>
                                     ELSE << <<4, 1>>, <<4, 0>> >>] }

\* the budget of PrivacyBudgetChoices, and a request asking for 0.4
RepeatedBudgetChoices == PrivacyBudgetChoices \cup {8}

\* silo s1 is indexed and queries naming alice follow each other as time
\* passes, with her access levels and without; no search fails
NextRepeatedQueries ==
  \/ Tick
  \/ BuildGlobalIndex(<<"s1">>, <<"none">>)
  \/ /\ queries_started < MaxRepeatedQueries
     /\ \E u \in {"alice", "alice, no levels"}, max_results \in MaxResultsChoices,
           privacy_budget \in RepeatedBudgetChoices, sim \in RepeatedSimChoices :
          RouteQueryStart(u, max_results, privacy_budget, sim)
  \/ \E noises \in [1..MockDocuments -> SearchNoiseChoices] :
       ExecuteSiloSearchTask(noises, -1)
  \/ RouteQueryFinish

SpecRepeatedQueries == Init /\ [][NextRepeatedQueries]_vars

\* ------------------------------------------------ queries that overlap
\* how many queries are routed, and how many search tasks exist at a time
MaxOverlappingQueries == 2
MaxTasks == 3

\* a per-silo search task of query q as route_query creates it; seen_used is
\* the used budget of the engine's manager as it was when the task last ran
SearchTask(q, s, u, per_silo, max_results, sim, used) ==
  [query_id |-> q, silo_id |-> s, user |-> u, privacy_budget |-> per_silo,
   max_results |-> max_results, profile |-> sim[s], pc |-> "search",
   hits |-> <<>>, i |-> 1, private_score |-> 0, outcome |-> "none",
   stale_ok |-> FALSE, seen_used |-> used, results |-> <<>>]

\* the budget of one add_noise_to_score call of the task
PerHit(task) == task.privacy_budget \div task.max_results

\* add_noise_to_score, were its check made on the ledger as the task saw it
\* when it last ran and its consumption on the ledger as it is
TaskAddNoise_StaleCheck(mgr, task, score, noise) ==
  IF task.seen_used + PerHit(task) > mgr.global_privacy_budget
  THEN [mgr |-> mgr, ret |-> score, outcome |-> "fallback"]
  ELSE [mgr |-> ConsumePrivacyBudget(mgr, PerHit(task)),
        ret |-> Clip(score + noise, 0, ScoreScale), outcome |-> "ok"]

\* the add_noise_to_score call of a task: a plain method, no await between
\* its check and its consumption
TaskAddNoise(mgr, task, score, noise) ==
  AddNoiseToScore(mgr, score, PerHit(task), noise)

\* where the loop of a task goes after hit i
AfterHit(task) ==
  IF task.i >= Len(task.hits) THEN [task EXCEPT !.i = @ + 1, !.pc = "done"]
  ELSE [task EXCEPT !.i = @ + 1, !.pc = "score"]

\* route_query up to the await of asyncio.gather, for a query that arrives
\* while tasks of earlier queries may still run
StartSearchTasks(u, max_results, privacy_budget, sim) ==
  LET user == RequestContexts[u]
      fc == FindCandidateSilos(permission_cache["indexer"], silo_indexes,
                               silo_order, sim, user, now)
      fa == FilterAccessibleSilos(permission_cache["engine"], fc.candidate_silos,
                                  silo_indexes, user, now)
      per_silo == privacy_budget \div Max(Len(fa.accessible_silos), 1)
  IN
  /\ ~fa.raised
  /\ fa.accessible_silos # <<>>
  /\ Len(tasks) + Len(fa.accessible_silos) <= MaxTasks
  /\ queries_started' = queries_started + 1
  /\ permission_cache' = [indexer |-> fc.cache, engine |-> fa.cache]
  /\ tasks' = tasks \o
       [j \in 1..Len(fa.accessible_silos) |->
          SearchTask(queries_started + 1, fa.accessible_silos[j], u, per_silo,
                     max_results, sim, managers[EnginePM].used_privacy_budget)]
  /\ UNCHANGED <<managers, last, now, silo_indexes, silo_order, global_index, query>>

\* a task runs silo_index.search
TaskSearch(j) ==
  /\ j \in 1..Len(tasks)
  /\ tasks[j].pc = "search"
  /\ \E hits \in {SearchIndex(silo_indexes[tasks[j].silo_id], tasks[j].profile,
                               tasks[j].max_results * 2)} :
       tasks' = [tasks EXCEPT ![j] =
                   [@ EXCEPT !.hits = hits, !.pc = "score",
                             !.seen_used = managers[EnginePM].used_privacy_budget]]
  /\ UNCHANGED <<managers, last, now, permission_cache, silo_indexes, silo_order,
                 global_index, query, queries_started>>

\* a task runs the loop up to the await of _retrieve_document_content: a
\* padding entry is skipped, the score of a hit is noised
TaskScore(j, noise) ==
  /\ j \in 1..Len(tasks)
  /\ tasks[j].pc = "score"
  /\ \E task \in {tasks[j]} :
       \E hit \in {task.hits[task.i]} :
         IF hit[2] = -1
         THEN /\ tasks' = [tasks EXCEPT ![j] =
                   [AfterHit(task) EXCEPT
                      !.seen_used = managers[EnginePM].used_privacy_budget]]
              /\ UNCHANGED managers
         ELSE \E r \in {TaskAddNoise(managers[EnginePM], task, hit[1], noise)} :
                /\ managers' = [managers EXCEPT ![EnginePM] = r.mgr]
                /\ tasks' = [tasks EXCEPT ![j] =
                     [task EXCEPT
                        !.pc = "retrieve", !.private_score = r.ret,
                        !.outcome = r.outcome,
                        !.stale_ok = (task.seen_used + PerHit(task)
                                        <= managers[EnginePM].global_privacy_budget),
                        !.seen_used = r.mgr.used_privacy_budget]]
  /\ UNCHANGED <<last, now, permission_cache, silo_indexes, silo_order,
                 global_index, query, queries_started>>

\* a task goes on after the await: the document check, then the result
TaskRetrieve(j) ==
  /\ j \in 1..Len(tasks)
  /\ tasks[j].pc = "retrieve"
  /\ \E task \in {tasks[j]} :
       \E content \in {RetrieveDocumentContent(permission_cache["engine"],
                                               task.silo_id, task.hits[task.i][2],
                                               RequestContexts[task.user], now)} :
         /\ permission_cache' = [permission_cache EXCEPT !["engine"] = content.cache]
         /\ tasks' = [tasks EXCEPT ![j] =
              [AfterHit(task) EXCEPT
                 !.seen_used = managers[EnginePM].used_privacy_budget,
                 !.results =
                    IF content.ret
                    THEN Append(@, KnowledgeResult(task.silo_id, task.hits[task.i][2],
                                                   task.private_score, PerHit(task)))
                    ELSE @]]
  /\ UNCHANGED <<managers, last, now, silo_indexes, silo_order, global_index,
                 query, queries_started>>

\* the tasks of query q, in the order route_query created them
TasksOf(q) == SelectSeq(tasks, LAMBDA task : task.query_id = q)

\* results[:max_results] of each task
TaskResults(ts) ==
  [j \in 1..Len(ts) |->
     SubSeq(ts[j].results, 1, Min(ts[j].max_results, Len(ts[j].results)))]

\* gather answers once every task of query q is done: route_query merges,
\* ranks, truncates and returns
JoinSearchTasks(q) ==
  /\ TasksOf(q) # <<>>
  /\ \A j \in 1..Len(tasks) : tasks[j].query_id = q => tasks[j].pc = "done"
  /\ \E ts \in {TasksOf(q)} :
       \E ranked_results \in {RankResults(Flatten(TaskResults(ts)))} :
         query' = [IdleQuery EXCEPT
           !.outcome = "returned", !.user = ts[1].user,
           !.max_results = ts[1].max_results,
           !.final_results =
              SubSeq(ranked_results, 1, Min(ts[1].max_results, Len(ranked_results)))]
  /\ tasks' = SelectSeq(tasks, LAMBDA task : task.query_id # q)
  /\ UNCHANGED <<managers, last, now, permission_cache, silo_indexes, silo_order,
                 global_index, queries_started>>

\* both silos are indexed, then queries of alice arrive and their tasks run
\* in any order, switching at the awaits
NextOverlapping ==
  \/ BuildGlobalIndex(<<"s1", "s2">>, <<"none", "none">>)
  \/ /\ queries_started < MaxOverlappingQueries
     /\ \E max_results \in MaxResultsChoices, privacy_budget \in PrivacyBudgetChoices,
           sim \in SimChoices :
          StartSearchTasks("alice", max_results, privacy_budget, sim)
  \/ \E j \in 1..MaxTasks : TaskSearch(j)
  \/ \E j \in 1..MaxTasks, noise \in {-1} : TaskScore(j, noise)
  \/ \E j \in 1..MaxTasks : TaskRetrieve(j)
  \/ \E q \in 1..MaxOverlappingQueries : JoinSearchTasks(q)

SpecOverlapping == Init /\ [][NextOverlapping]_vars

\* ------------------------------------------- direct calls on the indexer
\* what an indexer call was given and what it gave back: used_before and
\* used_after are the used budget of the indexer's manager around the call,
\* summary the dictionary build_global_index returned, success the boolean
\* update_silo_index returned, jobs the jobs the call ran
IndexerCall(op, silos, fails, used_before, used_after, outcome, summary, success, jobs) ==
  [op |-> op, silos |-> silos, fails |-> fails, used_before |-> used_before,
   used_after |-> used_after, outcome |-> outcome, summary |-> summary,
   success |-> success, jobs |-> jobs]

\* stands for the summary of a call that returned none
NoSummary == [total_silos |-> -1, indexed_silos |-> -1, privacy_budget_used |-> -1]

\* how many documents update_silo_index is given, and how many a silo holds
\* at most
NewDocumentsChoices == {1}
MaxDocumentCount == 3

CallBuildGlobalIndex(silos, fails) ==
  /\ \E r \in {BuildGlobalIndexRun(silos, fails)} :
       /\ managers' = [managers EXCEPT ![IndexerPM] = r.mgr]
       /\ silo_indexes' = r.silo_indexes
       /\ silo_order' = r.silo_order
       /\ global_index' = r.global_index
       /\ last' = IndexerCall("build_global_index", silos, fails,
                              managers[IndexerPM].used_privacy_budget,
                              r.mgr.used_privacy_budget, r.outcome,
                              IF r.outcome = "ok" THEN r.global_index ELSE NoSummary,
                              FALSE, r.jobs)
  /\ UNCHANGED <<now, permission_cache, query, queries_started, tasks>>

CallIndexSilo(s, fail) ==
  /\ \E st \in {IndexSilo([mgr |-> managers[IndexerPM], silo_indexes |-> silo_indexes,
                            silo_order |-> silo_order, jobs |-> <<>>], s, fail)} :
       /\ managers' = [managers EXCEPT ![IndexerPM] = st.mgr]
       /\ silo_indexes' = st.silo_indexes
       /\ silo_order' = st.silo_order
       /\ last' = IndexerCall("_index_silo", <<s>>, <<fail>>,
                              managers[IndexerPM].used_privacy_budget,
                              st.mgr.used_privacy_budget, "ok", NoSummary, FALSE,
                              st.jobs)
  /\ UNCHANGED <<now, permission_cache, global_index, query, queries_started, tasks>>

CallUpdateSiloIndex(s, new_documents, fail) ==
  /\ s \in DOMAIN silo_indexes
       => silo_indexes[s].document_count + new_documents <= MaxDocumentCount
  /\ \E r \in {UpdateSiloIndex(managers[IndexerPM], silo_indexes, s,
                                 new_documents, fail)} :
       /\ managers' = [managers EXCEPT ![IndexerPM] = r.mgr]
       /\ silo_indexes' = r.silo_indexes
       /\ last' = IndexerCall("update_silo_index", <<s>>, <<fail>>,
                              managers[IndexerPM].used_privacy_budget,
                              r.mgr.used_privacy_budget, "ok", NoSummary, r.ret,
                              <<>>)
  /\ UNCHANGED <<now, permission_cache, silo_order, global_index, query,
                 queries_started, tasks>>

NextIndexer ==
  \/ \E silos \in SilosChoices :
       \E fails \in [1..Len(silos) -> IndexFailures] :
         CallBuildGlobalIndex(silos, fails)
  \/ \E s \in SiloIds, fail \in IndexFailures : CallIndexSilo(s, fail)
  \/ \E s \in SiloIds, new_documents \in NewDocumentsChoices, fail \in BOOLEAN :
       CallUpdateSiloIndex(s, new_documents, fail)
  \/ ResetApplicationBudget

\* the indexer of the application under any sequence of calls
SpecIndexer == Init /\ [][NextIndexer]_vars

\* ------------------------------------- direct calls on a PermissionEngine
\* the fields UserContext declares
UserContextFields ==
  {"user_id", "organization_id", "team_ids", "access_levels",
   "security_clearance", "temporal_constraints"}

\* UserContext(**kwargs): the model keeps the fields it declares, gives the
\* optional ones their default None, and drops every other keyword (its
\* Config sets use_enum_values only, so extra keywords are ignored)
MakeUserContext(kwargs) ==
  [f \in UserContextFields |->
     IF f \in DOMAIN kwargs THEN kwargs[f]
     ELSE IF f = "security_clearance" THEN "" ELSE NoConstraints]

\* keyword arguments callers build a UserContext from
AliceKwargs ==
  [user_id |-> "alice", organization_id |-> "acme", team_ids |-> {"eng"},
   access_levels |-> {"internal"}]
BobKwargs ==
  [user_id |-> "bob", organization_id |-> "other", team_ids |-> {"ops"},
   access_levels |-> {"restricted"}]

\* alice as she is, moved to another team with lower access, limited to
\* business hours, and given the restricted-documents capability; bob of
\* another organization without and with an allow-list naming acme
UserKwargsChoices ==
  { AliceKwargs,
    [AliceKwargs EXCEPT !.team_ids = {"ops"}, !.access_levels = {"public"}],
    AliceKwargs @@ [temporal_constraints |-> [business_hours_only |-> TRUE]],
    AliceKwargs @@ [can_access_restricted_docs |-> TRUE],
    BobKwargs,
    BobKwargs @@ [cross_org_permissions |-> [organizations |-> {"acme"}]] }

\* the silos as indexed, and s1 after its access rules were replaced
SiloChoices ==
  { Silos["s1"], Silos["s2"],
    [Silos["s1"] EXCEPT !.access_rules = [forbidden_users |-> {"alice"}]] }

DocIndexChoices == {0, 1}

\* the clock of the permission engine advances by one of these, up to
\* MaxClock: to just under the time to live of a cache entry, or to it
WaitChoices == {4, 5}
MaxClock == 5

\* the PermissionEngine the direct calls are made on
DirectPE == "engine"

\* the entry the cache holds for the pair, <<>> when it holds none
CachedEntry(cache, silo, user) ==
  IF CacheKey(silo, user) \in DOMAIN cache
  THEN <<cache[CacheKey(silo, user)]>> ELSE <<>>

\* a call of a PermissionEngine method: what it was given (the user as the
\* keyword arguments and as the UserContext built from them), when, the
\* cache entry of the pair when it was called, and what it returned;
\* doc_index is -1 for a call that takes none
PermissionCall(op, silo, kwargs, doc_index, t, found, ret) ==
  [op |-> op, silo |-> silo, kwargs |-> kwargs, user |-> MakeUserContext(kwargs),
   doc_index |-> doc_index, t |-> t, found |-> found, ret |-> ret]

CallCheckSiloAccess(silo, kwargs) ==
  \E r \in {CheckSiloAccess(permission_cache[DirectPE], silo,
                            MakeUserContext(kwargs), now)} :
    /\ permission_cache' = [permission_cache EXCEPT ![DirectPE] = r.cache]
    /\ last' = PermissionCall("check_silo_access", silo, kwargs, -1, now,
                              CachedEntry(permission_cache[DirectPE], silo,
                                          MakeUserContext(kwargs)),
                              r.ret)
    /\ UNCHANGED <<managers, now, silo_indexes, silo_order, global_index,
                   query, queries_started, tasks>>

CallCheckDocumentAccess(silo, doc_index, kwargs) ==
  \E r \in {CheckDocumentAccess(permission_cache[DirectPE], silo, doc_index,
                                MakeUserContext(kwargs), now)} :
    /\ permission_cache' = [permission_cache EXCEPT ![DirectPE] = r.cache]
    /\ last' = PermissionCall("check_document_access", silo, kwargs, doc_index, now,
                              CachedEntry(permission_cache[DirectPE], silo,
                                          MakeUserContext(kwargs)),
                              r.ret)
    /\ UNCHANGED <<managers, now, silo_indexes, silo_order, global_index,
                   query, queries_started, tasks>>

\* time passes between two calls
Wait(d) ==
  /\ now + d <= MaxClock
  /\ now' = now + d
  /\ UNCHANGED <<managers, last, permission_cache, silo_indexes, silo_order,
                 global_index, query, queries_started, tasks>>

NextPermissions ==
  \/ \E silo \in SiloChoices, kwargs \in UserKwargsChoices :
       CallCheckSiloAccess(silo, kwargs)
  \/ \E silo \in SiloChoices, doc_index \in DocIndexChoices,
        kwargs \in UserKwargsChoices :
       CallCheckDocumentAccess(silo, doc_index, kwargs)
  \/ \E d \in WaitChoices : Wait(d)

\* a permission engine under any sequence of direct calls as time passes
SpecPermissions == Init /\ [][NextPermissions]_vars

\* ------------------------------------------ ids that contain the separator
\* two silos of acme's team eng, with ids "c" and "b:c", and a third "d"
ColonSilos ==
  { [Silos["s1"] EXCEPT !.silo_id = i] : i \in {"c", "b:c", "d"} }
\* a member of that team with user id "a:b", and a user of another
\* organization with user id "a"
ColonKwargs ==
  { [AliceKwargs EXCEPT !.user_id = "a:b"], [BobKwargs EXCEPT !.user_id = "a"] }

\* each user id names one user and each silo id one silo, whose rules do
\* not depend on the time
NextCacheKeys ==
  \/ \E silo \in ColonSilos, kwargs \in ColonKwargs : CallCheckSiloAccess(silo, kwargs)
  \/ \E d \in WaitChoices : Wait(d)

SpecCacheKeys == Init /\ [][NextCacheKeys]_vars

\* ------------------------ check_silo_access on optional fields of any kind
\* access_rules with no key
NoRules == [x \in {} |-> TRUE]

\* s1 as it is, without access rules, and asking for a clearance no
\* hierarchy knows
OptionalSilos ==
  { Silos["s1"], [Silos["s1"] EXCEPT !.access_rules = NoRules],
    [Silos["s1"] EXCEPT !.access_rules = [public_within_org |-> TRUE,
                                          min_security_clearance |-> "ultra"]] }

\* alice as she is, without access levels, with a clearance no hierarchy
\* knows, with a data-age limit, and with access windows whose ends parse,
\* do not parse, or are half given
OptionalKwargs ==
  { AliceKwargs,
    [AliceKwargs EXCEPT !.access_levels = {}],
    AliceKwargs @@ [security_clearance |-> "ultra"],
    AliceKwargs @@ [temporal_constraints |-> [max_data_age_days |-> 1]],
    AliceKwargs @@ [temporal_constraints |->
                      [access_start |-> "2026-01-01T17:56:00",
                       access_end |-> "2026-01-01T17:59:00"]],
    AliceKwargs @@ [temporal_constraints |->
                      [access_start |-> "tomorrow",
                       access_end |-> "2026-01-01T17:59:00"]],
    AliceKwargs @@ [temporal_constraints |-> [access_start |-> "tomorrow"]] }

\* check_silo_access: a call that raises leaves the cache alone
CallCheckSiloAccessOnAny(silo, kwargs) ==
  \E outcome \in {CheckSiloAccessOutcome(permission_cache[DirectPE], silo,
                                         MakeUserContext(kwargs), now)} :
    /\ \E r \in {IF outcome = "ok"
                 THEN CheckSiloAccess(permission_cache[DirectPE], silo,
                                      MakeUserContext(kwargs), now)
                 ELSE [cache |-> permission_cache[DirectPE], ret |-> FALSE]} :
         /\ permission_cache' = [permission_cache EXCEPT ![DirectPE] = r.cache]
         /\ last' = [op |-> "check_silo_access", silo |-> silo, kwargs |-> kwargs,
                     t |-> now, outcome |-> outcome, ret |-> r.ret]
    /\ UNCHANGED <<managers, now, silo_indexes, silo_order, global_index,
                   query, queries_started, tasks>>

NextOptionalFields ==
  \/ \E silo \in OptionalSilos, kwargs \in OptionalKwargs :
       CallCheckSiloAccessOnAny(silo, kwargs)
  \/ \E d \in WaitChoices : Wait(d)

SpecOptionalFields == Init /\ [][NextOptionalFields]_vars

\* ------------------------------------ get_accessible_silos, called directly
\* get_accessible_silos, were it to put each accessible silo in front
RECURSIVE GetAccessibleSilos_Reversed(_, _, _, _)
GetAccessibleSilos_Reversed(acc, all_silos, user, t) ==
  IF all_silos = <<>> THEN acc
  ELSE LET sa == CheckSiloAccess(acc.cache, Head(all_silos), user, t)
       IN GetAccessibleSilos_Reversed(
            [cache |-> sa.cache, checks |-> Append(acc.checks, sa.ret),
             accessible_silos |-> IF sa.ret
                                  THEN <<Head(all_silos)>> \o acc.accessible_silos
                                  ELSE acc.accessible_silos],
            Tail(all_silos), user, t)

\* get_accessible_silos: the loop over all_silos; checks lists what
\* check_silo_access answered for each silo
RECURSIVE GetAccessibleSilos(_, _, _, _)
GetAccessibleSilos(acc, all_silos, user, t) ==
  IF all_silos = <<>> THEN acc
  ELSE LET sa == CheckSiloAccess(acc.cache, Head(all_silos), user, t)
       IN GetAccessibleSilos(
            [cache |-> sa.cache, checks |-> Append(acc.checks, sa.ret),
             accessible_silos |-> IF sa.ret
                                  THEN Append(acc.accessible_silos, Head(all_silos))
                                  ELSE acc.accessible_silos],
            Tail(all_silos), user, t)

\* the lists get_accessible_silos is given
AllSilosChoices ==
  { <<>>, <<Silos["s1"], Silos["s2"]>>, <<Silos["s2"], Silos["s1"]>>,
    <<[Silos["s1"] EXCEPT !.access_rules = [forbidden_users |-> {"alice"}]],
      Silos["s2"], Silos["s1"]>> }

\* a call of get_accessible_silos: what it was given, when, the cache it
\* found, what check_silo_access answered in turn and what it returned
CallGetAccessibleSilos(all_silos, kwargs) ==
  \E r \in {GetAccessibleSilos([cache |-> permission_cache[DirectPE],
                                 checks |-> <<>>, accessible_silos |-> <<>>],
                                all_silos, MakeUserContext(kwargs), now)} :
    /\ permission_cache' = [permission_cache EXCEPT ![DirectPE] = r.cache]
    /\ last' = [op |-> "get_accessible_silos", all_silos |-> all_silos,
                user |-> MakeUserContext(kwargs), t |-> now,
                cache |-> permission_cache[DirectPE], checks |-> r.checks,
                ret |-> r.accessible_silos]
    /\ UNCHANGED <<managers, now, silo_indexes, silo_order, global_index,
                   query, queries_started, tasks>>

NextAccessibleSilos ==
  \/ \E silo \in SiloChoices, kwargs \in {AliceKwargs, BobKwargs} :
       CallCheckSiloAccess(silo, kwargs)
  \/ \E all_silos \in AllSilosChoices, kwargs \in {AliceKwargs, BobKwargs} :
       CallGetAccessibleSilos(all_silos, kwargs)
  \/ \E d \in WaitChoices : Wait(d)

\* get_accessible_silos on an engine that also answers single checks
SpecAccessibleSilos == Init /\ [][NextAccessibleSilos]_vars

\* ------------------------------------- the single checks, called directly
\* silos of every classification and users of every set of access levels
ClassificationSilos ==
  { [Silos["s1"] EXCEPT !.data_classification = c] : c \in AccessLevels }
ClassificationKwargs ==
  { [AliceKwargs EXCEPT !.access_levels = ls] : ls \in SUBSET AccessLevels }

\* access_rules of a silo of team eng of acme: none, an allow-list with and
\* without the user's other team, public_within_org set and cleared
TeamRulesChoices ==
  { NoRules,
    [allowed_teams |-> {"ops"}],
    [allowed_teams |-> {"qa"}],
    [public_within_org |-> TRUE],
    [public_within_org |-> FALSE],
    [allowed_teams |-> {"ops"}, public_within_org |-> FALSE],
    [allowed_teams |-> {"qa"}, public_within_org |-> TRUE] }
TeamSilos ==
  { [Silos["s1"] EXCEPT !.access_rules = r] : r \in TeamRulesChoices }
TeamKwargs ==
  { [AliceKwargs EXCEPT !.team_ids = ts, !.organization_id = o] :
      ts \in SUBSET {"eng", "ops"}, o \in {"acme", "other"} }

CallCheckClassificationAccess(silo, kwargs) ==
  /\ last' = PermissionCall("_check_classification_access", silo, kwargs, -1, now, <<>>,
                            CheckClassificationAccess(silo, MakeUserContext(kwargs)))
  /\ UNCHANGED <<managers, now, permission_cache, silo_indexes, silo_order,
                 global_index, query, queries_started, tasks>>

CallCheckTeamAccess(silo, kwargs) ==
  /\ last' = PermissionCall("_check_team_access", silo, kwargs, -1, now, <<>>,
                            CheckTeamAccess(silo, MakeUserContext(kwargs)))
  /\ UNCHANGED <<managers, now, permission_cache, silo_indexes, silo_order,
                 global_index, query, queries_started, tasks>>

\* access_rules with each custom rule alone, and two of them together
CustomRulesChoices ==
  { NoRules,
    [forbidden_users |-> {"alice"}],
    [forbidden_users |-> {"bob"}],
    [required_roles |-> {"admin"}],
    [required_projects |-> {"apollo"}],
    [forbidden_users |-> {"bob"}, min_security_clearance |-> "top_secret"] }
    \cup { [min_security_clearance |-> c] : c \in {"public", "confidential", "secret"} }
CustomSilos ==
  { [Silos["s1"] EXCEPT !.access_rules = r] : r \in CustomRulesChoices }
\* alice without and with a clearance, a role, a project
CustomKwargs ==
  { AliceKwargs, AliceKwargs @@ [roles |-> {"admin"}],
    AliceKwargs @@ [roles |-> {"guest"}],
    AliceKwargs @@ [project_access |-> {"apollo"}] }
    \cup { AliceKwargs @@ [security_clearance |-> c] :
             c \in {"public", "confidential", "secret", "top_secret"} }

CallCheckCustomRules(silo, kwargs) ==
  /\ last' = PermissionCall("_check_custom_rules", silo, kwargs, -1, now, <<>>,
                            CheckCustomRules(silo, MakeUserContext(kwargs)))
  /\ UNCHANGED <<managers, now, permission_cache, silo_indexes, silo_order,
                 global_index, query, queries_started, tasks>>

\* the query engine's gate on the silo's classification, called directly
CallCheckDataClassificationAccess(silo, kwargs) ==
  /\ last' = [op |-> "_check_data_classification_access", silo |-> silo,
              kwargs |-> kwargs, user |-> MakeUserContext(kwargs),
              outcome |-> CheckDataClassificationAccess(silo.data_classification,
                                                        MakeUserContext(kwargs))]
  /\ UNCHANGED <<managers, now, permission_cache, silo_indexes, silo_order,
                 global_index, query, queries_started, tasks>>

NextChecks ==
  \/ \E silo \in ClassificationSilos, kwargs \in ClassificationKwargs :
       CallCheckClassificationAccess(silo, kwargs)
  \/ \E silo \in ClassificationSilos, kwargs \in ClassificationKwargs :
       CallCheckDataClassificationAccess(silo, kwargs)
  \/ \E silo \in TeamSilos, kwargs \in TeamKwargs :
       CallCheckTeamAccess(silo, kwargs)
  \/ \E silo \in CustomSilos, kwargs \in CustomKwargs :
       CallCheckCustomRules(silo, kwargs)

\* the classification check and the team check on every input
SpecChecks == Init /\ [][NextChecks]_vars

\* -------------------------------------------------- KnowledgeSynthesizer
\* KnowledgeResult(**kwargs): like UserContext, the model keeps the fields it
\* declares and drops every other keyword
KnowledgeResultFields ==
  {"silo_id", "document_index", "relevance_score", "privacy_score", "access_level"}
MakeKnowledgeResult(kwargs) ==
  [f \in KnowledgeResultFields \cap DOMAIN kwargs |-> kwargs[f]]

\* _check_result_access_level
CheckResultAccessLevel(result, user) ==
  LET required_level == ClassificationLevel(result.access_level, 3)
      user_max_level ==
        IF user.access_levels # {}
        THEN SetMax({ClassificationLevel(l, 0) : l \in user.access_levels})
        ELSE 0
  IN user_max_level >= required_level

\* check_synthesis_access; min_confidence_for_synthesis defaults to 0.0
CheckSynthesisAccess(result, user) ==
  IF ~CheckResultAccessLevel(result, user) THEN FALSE
  ELSE IF "synthesis_restrictions" \in DOMAIN result
  THEN LET restrictions == result.synthesis_restrictions IN
       IF "no_synthesis" \in DOMAIN restrictions /\ restrictions.no_synthesis
       THEN FALSE
       ELSE IF result.relevance_score <
                 (IF "min_confidence_for_synthesis" \in DOMAIN restrictions
                  THEN restrictions.min_confidence_for_synthesis ELSE 0)
       THEN FALSE
       ELSE TRUE
  ELSE TRUE

\* _final_permission_filter
FinalPermissionFilter(results, user) ==
  SelectSeq(results, LAMBDA result : CheckSynthesisAccess(result, user))

\* keyword arguments callers build a KnowledgeResult from: relevance 0.5 at
\* each of three levels, without restrictions and with each restriction
SynthesisRestrictionsChoices ==
  { [no_synthesis |-> TRUE], [no_synthesis |-> FALSE],
    [min_confidence_for_synthesis |-> 8], [min_confidence_for_synthesis |-> 3] }
ResultKwargsChoices ==
  LET plain == { [silo_id |-> "s1", document_index |-> 0, relevance_score |-> 5,
                  privacy_score |-> 4, access_level |-> l] :
                   l \in {"public", "internal", "restricted"} }
  IN plain \cup { r @@ [synthesis_restrictions |-> x] :
                    r \in plain, x \in SynthesisRestrictionsChoices }
SynthesisUserKwargs ==
  { AliceKwargs, [AliceKwargs EXCEPT !.access_levels = {}], BobKwargs }

\* check_synthesis_access called on a result built from given
CallCheckSynthesisAccess(given, kwargs) ==
  /\ last' = [op |-> "check_synthesis_access", given |-> given,
              result |-> MakeKnowledgeResult(given), kwargs |-> kwargs,
              ret |-> CheckSynthesisAccess(MakeKnowledgeResult(given),
                                          MakeUserContext(kwargs))]
  /\ UNCHANGED <<managers, now, permission_cache, silo_indexes, silo_order,
                 global_index, query, queries_started, tasks>>

\* synthesize_answers on results built from given: the source_results of the
\* SynthesisOutput
CallSynthesizeAnswers(given, kwargs) ==
  /\ last' = [op |-> "synthesize_answers", given |-> given,
              federated_results |-> [i \in DOMAIN given |-> MakeKnowledgeResult(given[i])],
              kwargs |-> kwargs,
              source_results |->
                FinalPermissionFilter([i \in DOMAIN given |-> MakeKnowledgeResult(given[i])],
                                      MakeUserContext(kwargs))]
  /\ UNCHANGED <<managers, now, permission_cache, silo_indexes, silo_order,
                 global_index, query, queries_started, tasks>>

NextSynthesis ==
  \/ \E given \in ResultKwargsChoices, kwargs \in SynthesisUserKwargs :
       CallCheckSynthesisAccess(given, kwargs)
  \/ \E a \in ResultKwargsChoices, b \in ResultKwargsChoices, kwargs \in SynthesisUserKwargs :
       \E given \in {<<a>>, <<a, b>>} : CallSynthesizeAnswers(given, kwargs)

SpecSynthesis == Init /\ [][NextSynthesis]_vars

\* ===================================================== the privacy ledger
HardFailOps ==
  {"add_noise_to_embeddings", "create_private_histogram", "private_top_k"}

\* the calls that consume exactly the epsilon they are given
SingleConsumption(call) ==
  /\ call.op \in {"add_noise_to_embeddings", "create_private_histogram",
                  "add_noise_to_score"}
  /\ call.outcome = "ok"

\* C1: under any sequence of the manager's operations with positive epsilons
\* used_budget never exceeds global_budget.
C1_UsedWithinGlobal ==
  \A m \in MgrIds :
    managers[m].used_privacy_budget <= managers[m].global_privacy_budget

\* C2: a hard-fail mechanism called with used_budget + epsilon > global_budget
\* fails with the insufficient-budget error and leaves used_budget and the
\* usage log as they were.
C2_HardFailLeavesLedger ==
  [][ \A m \in MgrIds :
        ( /\ last'.op \in HardFailOps
          /\ last'.mgr = m
          /\ managers[m].used_privacy_budget + last'.eps
               > managers[m].global_privacy_budget )
        => ( /\ last'.outcome = InsufficientBudget
             /\ managers'[m] = managers[m] ) ]_vars

\* the second add_noise_to_embeddings(0.6) on a budget of 1.0 was refused and
\* used_budget is still 0.6
C2_Witness ==
  /\ last.op = "add_noise_to_embeddings"
  /\ last.eps = 12
  /\ last.used_before = 12
  /\ last.outcome = InsufficientBudget
  /\ managers[last.mgr].global_privacy_budget = BudgetScale
  /\ managers[last.mgr].used_privacy_budget = 12

\* C3: add_noise_to_score never fails for lack of budget: without the budget
\* it returns the score it was given and leaves used_budget alone, with the
\* budget it adds exactly epsilon to used_budget.
C3_ScoreSoftFail ==
  [][ \A m \in MgrIds :
        (last'.op = "add_noise_to_score" /\ last'.mgr = m)
        => /\ last'.outcome # InsufficientBudget
           /\ IF managers[m].used_privacy_budget + last'.eps
                   > managers[m].global_privacy_budget
              THEN /\ last'.ret = last'.score
                   /\ managers'[m] = managers[m]
              ELSE managers'[m].used_privacy_budget
                     = managers[m].used_privacy_budget + last'.eps ]_vars

\* a score outside [0,1] came back untouched from a manager without budget
C3_Witness ==
  /\ last.op = "add_noise_to_score"
  /\ last.used_before + last.eps > managers[last.mgr].global_privacy_budget
  /\ last.score = 12
  /\ last.ret = 12
  /\ managers[last.mgr].used_privacy_budget = last.used_before

\* C4: the budgets recorded in the usage log since the last reset sum to
\* used_budget (no mechanism runs uncounted).
C4_LogSumsToUsed ==
  \A m \in MgrIds :
    GetPrivacyReport(managers[m]).mechanism_usage.total_budget_used
      = managers[m].used_privacy_budget

\* C6: the budget check is true iff used + requested <= global and changes
\* nothing; two successful consumptions e1 then e2 leave used_budget at its
\* value before the first plus e1 + e2, and get_remaining_budget at
\* global_budget minus that.
C6_CheckAndAdditive ==
  [][ \A m \in MgrIds :
        /\ (last'.op = "_check_privacy_budget" /\ last'.mgr = m)
           => /\ (last'.outcome = "true")
                   <=> (managers[m].used_privacy_budget + last'.eps
                          <= managers[m].global_privacy_budget)
              /\ managers'[m] = managers[m]
        /\ ( /\ SingleConsumption(last) /\ last.mgr = m
             /\ SingleConsumption(last') /\ last'.mgr = m )
           => /\ managers'[m].used_privacy_budget
                   = last.used_before + last.eps + last'.eps
              /\ GetRemainingBudget(managers'[m])
                   = managers[m].global_privacy_budget
                       - (last.used_before + last.eps + last'.eps) ]_vars

\* a consumption of 0.6 after one of 0.4 was accepted and exhausts a budget of
\* 1.0 exactly
C6_Witness ==
  /\ SingleConsumption(last)
  /\ last.used_before = 8
  /\ last.eps = 12
  /\ managers[last.mgr].used_privacy_budget = managers[last.mgr].global_privacy_budget
  /\ GetRemainingBudget(managers[last.mgr]) = 0

\* C7: add_noise_to_score returns a value in [0,1] for every score in [0,1],
\* on the noised path and on the fallback path.
C7_ScoreInRange ==
  (last.op = "add_noise_to_score" /\ 0 <= last.score /\ last.score <= ScoreScale)
  => (0 <= last.ret /\ last.ret <= ScoreScale)

\* a score of 0.8 was noised below zero and clamped to 0
C7_Witness ==
  /\ last.op = "add_noise_to_score"
  /\ last.outcome = "ok"
  /\ last.score = 8
  /\ last.ret = 0

\* ============================================= the running application
\* a step of the query engine's per-silo search
SearchTaskStep == Len(query'.silo_results) = Len(query.silo_results) + 1

\* the indexing jobs of a run that got as far as noising their embeddings
NoisedJobs(fails) == Cardinality({i \in DOMAIN fails : fails[i] # "retrieve"})

\* C5: used_budget starts at 0 and never decreases except by
\* reset_privacy_budget, which sets it to 0 and empties the usage log; what a
\* per-silo search consumed before it failed stays consumed, and so does what
\* an indexing job consumed before it failed.
C5_BudgetOnlyGrows ==
  /\ \A m \in MgrIds : managers[m].used_privacy_budget = 0
  /\ [][ /\ \A m \in MgrIds :
              \/ managers'[m].used_privacy_budget >= managers[m].used_privacy_budget
              \/ /\ m = IndexerPM
                 /\ ResetApplicationBudget
                 /\ managers'[m].used_privacy_budget = 0
                 /\ managers'[m].usage_log = <<>>
         /\ \A p \in query'.raised \ query.raised :
              ( /\ SearchTaskStep
                /\ p[2] >= 1
                /\ managers[EnginePM].used_privacy_budget
                     + (query.privacy_budget_per_silo \div query.max_results)
                     <= managers[EnginePM].global_privacy_budget )
              => managers'[EnginePM].used_privacy_budget
                   >= managers[EnginePM].used_privacy_budget
                        + (query.privacy_budget_per_silo \div query.max_results)
         /\ \A silos \in SilosChoices \ {<<>>} :
              \A fails \in [1..Len(silos) -> IndexFailures] :
                ( /\ BuildGlobalIndex(silos, fails)
                  /\ \E i \in 1..Len(silos) : fails[i] = "faiss"
                  /\ CheckPrivacyBudget(managers[IndexerPM],
                                        NoisedJobs(fails) * IndexingBudget) )
                => managers'[IndexerPM].used_privacy_budget
                     = managers[IndexerPM].used_privacy_budget
                         + NoisedJobs(fails) * IndexingBudget
     ]_vars

\* the only search task run so far raised while handling its first hit, and
\* the budget that hit consumed is still consumed
C5_Witness ==
  /\ queries_started = 1
  /\ Len(query.silo_results) = 1
  /\ \E s \in SiloIds : query.raised = {<<s, 1>>}
  /\ managers[EnginePM].used_privacy_budget > 0

\* C8: there is one privacy ledger: what a query's score noising consumes
\* shows in the report of the manager given to the indexer.
C8_SingleLedger ==
  [][ \A m \in MgrIds :
        SearchTaskStep
        => GetPrivacyReport(managers'[IndexerPM]).used_budget
             - GetPrivacyReport(managers[IndexerPM]).used_budget
           = managers'[m].used_privacy_budget - managers[m].used_privacy_budget
    ]_vars

\* the results a query holds: those its tasks returned and those it returned
HeldResults ==
  {query.final_results[i] : i \in 1..Len(query.final_results)}
  \cup UNION { {query.silo_results[j][i] : i \in 1..Len(query.silo_results[j])}
               : j \in 1..Len(query.silo_results) }

\* C9: every KnowledgeResult of a query was constructed after
\* check_silo_access granted its silo and check_document_access granted its
\* document to the requesting user, within that query.
C9_ResultsWerePermitted ==
  \A r \in HeldResults :
    /\ r.silo_id \in query.silo_ok
    /\ <<r.silo_id, r.document_index>> \in query.doc_ok

\* a query returned a result of silo s1 while the restricted document 1 of
\* s1 was refused
C9_Witness ==
  /\ query.outcome = "returned"
  /\ \E i \in 1..Len(query.final_results) : query.final_results[i].silo_id = "s1"
  /\ <<"s1", 1>> \notin query.doc_ok

\* C10: find_candidate_silos searches no silo check_silo_access refused, and
\* returns exactly the granted silos whose top-1 score is above 0.3.
C10_CandidatesOnlyFromGranted ==
  query.outcome \in {"pending", "ValueError"}
  => /\ \A s \in DOMAIN query.access : ~query.access[s] => s \notin query.searched
     /\ query.searched \subseteq DOMAIN query.access
     /\ {query.candidate_silos[i] : i \in 1..Len(query.candidate_silos)}
          = {s \in DOMAIN query.access :
               query.access[s] /\ query.sim[s][1][1] > CandidateThreshold}
     /\ \A i, j \in 1..Len(query.candidate_silos) :
          i # j => query.candidate_silos[i] # query.candidate_silos[j]

\* a query whose user was refused one indexed silo and granted another, the
\* granted one being a candidate
C10_Witness ==
  /\ query.outcome \in {"pending", "ValueError"}
  /\ \E s \in DOMAIN query.access : ~query.access[s]
  /\ query.candidate_silos # <<>>

\* ================================================== the permission engine
\* the call just made is a check_silo_access that found no cache entry for
\* its (user, silo) pair
SiloAccessMiss ==
  /\ last'.op = "check_silo_access"
  /\ CacheKey(last'.silo, last'.user) \notin DOMAIN permission_cache[DirectPE]

\* the foreign organizations the caller allow-listed for the user
AllowedOrganizations(kwargs) ==
  IF "cross_org_permissions" \in DOMAIN kwargs
  THEN kwargs.cross_org_permissions.organizations
  ELSE {}

\* C11: with no cached entry for the pair, check_silo_access refuses a user
\* of another organization whose allow-list does not name the silo's
\* organization; when the allow-list names it the organizational check
\* passes, so the decision is that of the other four checks.
C11_OrganizationalBoundary ==
  [][ SiloAccessMiss =>
        LET silo == last'.silo
            user == last'.user
            foreign == silo.organization_id # last'.kwargs.organization_id
            listed == silo.organization_id \in AllowedOrganizations(last'.kwargs)
        IN /\ (foreign /\ ~listed) => ~last'.ret
           /\ (foreign /\ listed)
                => (last'.ret <=> /\ CheckTeamAccess(silo, user)
                                  /\ CheckClassificationAccess(silo, user)
                                  /\ CheckTemporalConstraints(silo, user, last'.t)
                                  /\ CheckCustomRules(silo, user)) ]_vars

\* the call just made is a check_silo_access that found no entry of its pair
\* younger than the time to live
SiloAccessNoHit ==
  /\ last'.op = "check_silo_access"
  /\ LET key == CacheKey(last'.silo, last'.user)
         cache == permission_cache[DirectPE]
     IN key \in DOMAIN cache => now - cache[key].cached_time >= CacheTTL

\* C12: on a cache miss check_silo_access returns true iff the
\* organizational, team, classification, temporal and custom-rule checks all
\* pass, and stores that one decision in the cache under the key of the pair.
C12_MissIsConjunction ==
  [][ SiloAccessNoHit =>
        LET silo == last'.silo
            user == last'.user
            key == CacheKey(silo, user)
            decision == /\ CheckOrganizationalAccess(silo, user)
                        /\ CheckTeamAccess(silo, user)
                        /\ CheckClassificationAccess(silo, user)
                        /\ CheckTemporalConstraints(silo, user, now)
                        /\ CheckCustomRules(silo, user)
        IN /\ last'.ret = decision
           /\ DOMAIN permission_cache'[DirectPE]
                = DOMAIN permission_cache[DirectPE] \cup {key}
           /\ permission_cache'[DirectPE][key].result = decision
           /\ \A k \in DOMAIN permission_cache[DirectPE] \ {key} :
                permission_cache'[DirectPE][k] = permission_cache[DirectPE][k]
    ]_vars

\* silo s1 (acme, eng, internal, public_within_org) was granted to alice
\* (acme, eng, {internal}) and the grant is in the cache
C12_Witness ==
  /\ last.op = "check_silo_access"
  /\ last.silo = Silos["s1"]
  /\ last.kwargs = AliceKwargs
  /\ last.ret
  /\ permission_cache[DirectPE]["alice:s1"] = [cached_time |-> last.t, result |-> TRUE]

\* the classifications from the lowest to the highest
ClassificationOrder == <<"public", "internal", "confidential", "restricted">>

\* the levels among ls that are at least as high as classification c
LevelsReaching(ls, c) ==
  { l \in ls : \E i, j \in 1..Len(ClassificationOrder) :
                 /\ ClassificationOrder[i] = c
                 /\ ClassificationOrder[j] = l
                 /\ j >= i }

\* C13: the classification check passes iff the highest of the user's access
\* levels (public < internal < confidential < restricted, none counting as
\* public) is at least the silo's classification; {restricted} passes for
\* every classification, {internal} fails for confidential and restricted.
C13_ClassificationOrdering ==
  last.op = "_check_classification_access"
  => LET c == last.silo.data_classification
         ls == last.user.access_levels
     IN /\ last.ret <=> (c = "public" \/ LevelsReaching(ls, c) # {})
        /\ ls = {"restricted"} => last.ret
        /\ (ls = {"internal"} /\ c \in {"confidential", "restricted"}) => ~last.ret

\* a user holding only internal was refused a confidential silo
C13_Witness ==
  /\ last.op = "_check_classification_access"
  /\ last.user.access_levels = {"internal"}
  /\ last.silo.data_classification = "confidential"
  /\ ~last.ret

\* the value access_rules gives a key, or the default when it has none
RuleOr(rules, key, default) ==
  IF key \in DOMAIN rules THEN rules[key] ELSE default

PairCachedFresh ==
  /\ last'.op \in {"check_silo_access", "check_document_access"}
  /\ LET key == CacheKey(last'.silo, last'.user)
         cache == permission_cache[DirectPE]
     IN key \in DOMAIN cache /\ now - cache[key].cached_time < CacheTTL

\* C15: while the entry of a (user_id, silo_id) pair is younger than five
\* minutes, check_silo_access returns the cached decision for the pair and
\* evaluates nothing, whatever the user's attributes, the silo's rules and
\* the time have become; check_document_access, which asks it first, refuses
\* on a cached denial.
C15_CacheHitShortCircuits ==
  [][ PairCachedFresh =>
        LET cached == permission_cache[DirectPE][CacheKey(last'.silo, last'.user)]
        IN /\ permission_cache' = permission_cache
           /\ last'.op = "check_silo_access" => last'.ret = cached.result
           /\ (last'.op = "check_document_access" /\ ~cached.result) => ~last'.ret
    ]_vars

\* check_silo_access answered from an entry cached earlier, and the five
\* checks would now decide otherwise for the user and silo it was given
C15_Witness ==
  /\ last.op = "check_silo_access"
  /\ last.t = now
  /\ LET key == CacheKey(last.silo, last.user)
     IN /\ key \in DOMAIN permission_cache[DirectPE]
        /\ permission_cache[DirectPE][key].cached_time < now
        /\ permission_cache[DirectPE][key].result = last.ret
  /\ last.ret # ( /\ CheckOrganizationalAccess(last.silo, last.user)
                  /\ CheckTeamAccess(last.silo, last.user)
                  /\ CheckClassificationAccess(last.silo, last.user)
                  /\ CheckTemporalConstraints(last.silo, last.user, now)
                  /\ CheckCustomRules(last.silo, last.user) )

\* what evaluating the five checks at time t gives for the silo and user
EvaluatedAt(silo, user, t) ==
  /\ CheckOrganizationalAccess(silo, user)
  /\ CheckTeamAccess(silo, user)
  /\ CheckClassificationAccess(silo, user)
  /\ CheckTemporalConstraints(silo, user, t)
  /\ CheckCustomRules(silo, user)

\* C16: an entry five minutes old or older counts as absent, not as a
\* denial: check_silo_access evaluates the five checks again and caches the
\* new decision with the current time; so whatever check_silo_access returns
\* is the decision of an entry dated less than five minutes before the call.
C16_StalenessBoundedByTTL ==
  [][ last'.op = "check_silo_access" =>
        LET key == CacheKey(last'.silo, last'.user)
            before == permission_cache[DirectPE]
            after == permission_cache'[DirectPE]
        IN /\ (key \in DOMAIN before /\ now - before[key].cached_time >= CacheTTL)
                => /\ last'.ret = EvaluatedAt(last'.silo, last'.user, now)
                   /\ after[key] = [cached_time |-> now, result |-> last'.ret]
           /\ key \in DOMAIN after
           /\ after[key].result = last'.ret
           /\ now - after[key].cached_time < CacheTTL
    ]_vars

\* check_silo_access found a denial cached five minutes before or earlier,
\* evaluated again, granted, and cached the grant with the time of the call
C16_Witness ==
  /\ last.op = "check_silo_access"
  /\ last.found # <<>>
  /\ last.t - last.found[1].cached_time >= CacheTTL
  /\ ~last.found[1].result
  /\ last.ret
  /\ permission_cache[DirectPE][CacheKey(last.silo, last.user)]
       = [cached_time |-> last.t, result |-> TRUE]

\* C17: check_document_access is true only if the check_silo_access it makes
\* for the silo and user is true, and for a document listed in the silo's
\* restricted_documents only if the user has can_access_restricted_docs.
C17_DocumentNeedsSiloAndCapability ==
  [][ (last'.op = "check_document_access" /\ last'.ret) =>
        LET key == CacheKey(last'.silo, last'.user)
            after == permission_cache'[DirectPE]
        IN /\ key \in DOMAIN after
           /\ now - after[key].cached_time < CacheTTL
           /\ after[key].result
           /\ last'.doc_index \in RuleOr(last'.silo.access_rules,
                                        "restricted_documents", {})
                => RuleOr(last'.user, "can_access_restricted_docs", FALSE)
    ]_vars

\* a user granted silo s1 was refused its restricted document 1
C17_Witness ==
  /\ last.op = "check_document_access"
  /\ last.silo = Silos["s1"]
  /\ last.doc_index = 1
  /\ ~last.ret
  /\ permission_cache[DirectPE][CacheKey(last.silo, last.user)]
       = [cached_time |-> last.t, result |-> TRUE]

\* ======================================================= the query engine
\* the silos whose search task ended in the except branch
RaisedSilos(q) == {p[1] : p \in q.raised}

\* C18: a per-silo search that raises is contained: the task hands back no
\* result and the query goes on, route_query returns normally, and the list
\* it returns holds results of the surviving silos only.
C18_SearchFailureContained ==
  [][ /\ SearchTaskStep
        => /\ query'.pc = "gather"
           /\ query'.outcome = "pending"
           /\ query'.raised # query.raised
                => query'.silo_results[Len(query'.silo_results)] = <<>>
      /\ (query.pc = "gather" /\ query'.pc = "idle")
        => /\ query'.outcome = "returned"
           /\ \A i \in 1..Len(query'.final_results) :
                query'.final_results[i].silo_id \notin RaisedSilos(query)
    ]_vars

\* a query over s1 and s2 returned results of s2 although the search of s1
\* raised
C18_Witness ==
  /\ query.outcome = "returned"
  /\ RaisedSilos(query) = {"s1"}
  /\ query.final_results # <<>>
  /\ \A i \in 1..Len(query.final_results) : query.final_results[i].silo_id = "s2"

\* the classification gate as the permission engine applies it: the highest
\* of the levels, none counting as public, reaches the classification
ReachesClassification(ls, c) == c = "public" \/ LevelsReaching(ls, c) # {}

\* no candidate of the query in progress passes both gates of the engine:
\* each was refused by check_silo_access or lies above the user's levels
NoCandidatePasses ==
  \A i \in 1..Len(query.candidate_silos) :
    LET c == query.candidate_silos[i]
    IN \/ c \notin query.silo_ok
       \/ ~ReachesClassification(RequestContexts[query.user].access_levels,
                                 Silos[c].data_classification)

\* C19: when no silo is a candidate, or the permission and classification
\* gates filter every candidate out, route_query raises nothing and goes on
\* with no silo to search, so that it returns an empty list.
C19_NoSiloMeansEmptyList ==
  (query.outcome \in {"pending", "ValueError"} /\ NoCandidatePasses)
  => /\ query.outcome = "pending"
     /\ query.accessible_silos = <<>>
     /\ query.pending = <<>>

\* how many of the results come from the silo
FromSilo(results, silo_id) ==
  Cardinality({i \in 1..Len(results) : results[i].silo_id = silo_id})

\* 0.7 * relevance - 0.2 * privacy_score + 0.1 * (1 - same silo / all), on
\* the scale of the scores and budgets, times 100 * Len(all)
WeightedScore(r, all) ==
  Len(all) * (7 * r.relevance_score - r.privacy_score)
  + 10 * (Len(all) - FromSilo(all, r.silo_id))

\* C20: the list route_query returns is in non-increasing order of the
\* ranking score, computed against all the collected results; it has at most
\* max_results entries, all of them collected ones, and no silo contributed
\* more than max_results results.
C20_RankedAndCapped ==
  [][ (query.pc = "gather" /\ query'.pc = "idle")
        => LET all == Flatten(query.silo_results)
               final == query'.final_results
           IN /\ Len(final) <= query.max_results
              /\ \A i \in 1..Len(final) : \E j \in 1..Len(all) : final[i] = all[j]
              /\ \A i \in 1..(Len(final) - 1) :
                   WeightedScore(final[i], all) >= WeightedScore(final[i + 1], all)
              /\ \A s \in SiloIds : FromSilo(all, s) <= query.max_results
    ]_vars

\* a query returned max_results = 2 results that come from two silos
C20_Witness ==
  /\ query.outcome = "returned"
  /\ query.max_results = 2
  /\ Len(query.final_results) = 2
  /\ query.final_results[1].silo_id # query.final_results[2].silo_id

\* ------------------------------------------------------------ the indexer
\* how many of the jobs completed
CompletedJobs(jobs) ==
  Cardinality({i \in 1..Len(jobs) : jobs[i].status = "completed"})

\* C21: build_global_index does not raise, whether or not a silo failed to
\* index, and returns a summary in which total_silos is the number of silos
\* given and indexed_silos the number of jobs that completed.
C21_BuildToleratesFailures ==
  last.op = "build_global_index"
  => /\ last.outcome = "ok"
     /\ last.summary.total_silos = Len(last.silos)
     /\ last.summary.indexed_silos = CompletedJobs(last.jobs)

\* C22: the privacy_budget_used of the summary build_global_index returns is
\* the amount by which the call raised the used budget of the indexer's
\* privacy manager.
C22_SummaryBudgetIsConsumption ==
  last.op = "build_global_index"
  => /\ last.outcome = "ok"
     /\ last.summary.privacy_budget_used = last.used_after - last.used_before

\* C23: _index_silo does not raise and returns a job that is completed or
\* failed, a failed one with an error message; every silo given gets its job
\* in turn, whatever happened to the silos before it, and a silo whose
\* indexing meets no failure while budget is left is completed and indexed.
C23_IndexSiloContainsFailure ==
  last.op \in {"_index_silo", "build_global_index"}
  => /\ last.op = "_index_silo" => last.outcome = "ok"
     /\ Len(last.jobs) = Len(last.silos)
     /\ \A i \in 1..Len(last.jobs) :
          LET job == last.jobs[i] IN
          /\ job.silo_id = last.silos[i]
          /\ job.status \in {"completed", "failed"}
          /\ job.status = "failed" => job.error_message # ""
          /\ job.status = "completed" => job.silo_id \in DOMAIN silo_indexes
          /\ ( /\ last.fails[i] = "none"
               /\ last.used_after + IndexingBudget
                    <= managers[IndexerPM].global_privacy_budget )
             => job.status = "completed"

\* build_global_index indexed the second silo after the first one failed
C23_Witness ==
  /\ last.op = "build_global_index"
  /\ Len(last.jobs) = 2
  /\ last.jobs[1].status = "failed"
  /\ last.jobs[2].status = "completed"
  /\ last.jobs[2].silo_id \in DOMAIN silo_indexes

\* C24: update_silo_index on a silo that has no index returns false without
\* raising; the silo indexes and the privacy manager stay as they were.
C24_UpdateUnknownSilo ==
  [][ \A s \in SiloIds :
        ( /\ s \notin DOMAIN silo_indexes
          /\ \E new_documents \in NewDocumentsChoices, fail \in BOOLEAN :
               CallUpdateSiloIndex(s, new_documents, fail) )
        => /\ last'.outcome = "ok"
           /\ last'.success = FALSE
           /\ silo_indexes' = silo_indexes
           /\ managers' = managers
    ]_vars

\* update_silo_index was refused for a silo without index while another
\* silo has one and budget is left
C24_Witness ==
  /\ last.op = "update_silo_index"
  /\ last.success = FALSE
  /\ last.silos[1] \notin DOMAIN silo_indexes
  /\ silo_indexes # <<>>
  /\ CheckPrivacyBudget(managers[IndexerPM], IndexingBudget)

\* ---------------------------------------------------- overlapping tasks
\* C25: whatever the order in which the search tasks of one or several
\* queries run, the used budget of the manager they share only rises by the
\* budget of a call whose check passes on the ledger as it is at that very
\* step; the used budget never passes the global budget.
C25_CheckAndConsumeAtomic ==
  [][ LET m == managers[EnginePM] IN
      /\ m.used_privacy_budget <= m.global_privacy_budget
      /\ managers'[EnginePM].used_privacy_budget # m.used_privacy_budget
           => \E j \in 1..Len(tasks) :
                /\ tasks[j].pc = "score"
                /\ tasks'[j].pc = "retrieve"
                /\ managers'[EnginePM].used_privacy_budget
                     = m.used_privacy_budget + PerHit(tasks[j])
                /\ m.used_privacy_budget + PerHit(tasks[j]) <= m.global_privacy_budget
    ]_vars

\* a task found the budget spent by other tasks since it last ran, and left
\* the ledger alone
C25_Witness ==
  \E j \in 1..Len(tasks) :
    /\ tasks[j].pc = "retrieve"
    /\ tasks[j].outcome = "fallback"
    /\ tasks[j].stale_ok
    /\ \E k \in 1..Len(tasks) : k # j /\ tasks[k].query_id # tasks[j].query_id

\* ------------------------------------------------- get_accessible_silos
\* the silos of the list whose flag is set, in the order of the list
RECURSIVE Flagged(_, _)
Flagged(silos, flags) ==
  IF silos = <<>> THEN <<>>
  ELSE (IF Head(flags) THEN <<Head(silos)>> ELSE <<>>)
       \o Flagged(Tail(silos), Tail(flags))

\* what check_silo_access answers at time t on the cache: the decision of
\* an entry younger than the TTL, the five checks otherwise
Decision(cache, silo, user, t) ==
  LET e == CachedEntry(cache, silo, user) IN
  IF e # <<>> /\ t - e[1].cached_time < CacheTTL THEN e[1].result
  ELSE FiveChecks(silo, user, t)

\* C26: get_accessible_silos calls check_silo_access once per silo of its
\* input and returns the silos it answered true for, in the order of the
\* input; the first answer for a silo id is the decision for the pair.
C26_AccessibleSilosFiltered ==
  last.op = "get_accessible_silos"
  => /\ Len(last.checks) = Len(last.all_silos)
     /\ last.ret = Flagged(last.all_silos, last.checks)
     /\ \A i \in 1..Len(last.all_silos) :
          (\A j \in 1..(i - 1) : last.all_silos[j].silo_id # last.all_silos[i].silo_id)
          => last.checks[i] = Decision(last.cache, last.all_silos[i], last.user, last.t)

\* two silos came back in the order given, the second of the two first
C26_Witness ==
  /\ last.op = "get_accessible_silos"
  /\ Len(last.ret) = 2
  /\ last.ret[1].silo_id = "s2"
  /\ last.ret[2].silo_id = "s1"

\* -------------------------------------------------------- private_top_k
\* C27: private_top_k called with a budget the ledger can still take does
\* not raise and returns min(k, |items|) pairs; the pairs name distinct
\* items of the input and come by non-increasing noisy score; for no item
\* the list is empty.
C27_TopKShape ==
  ( /\ last.op = "private_top_k"
    /\ last.used_before + last.eps <= managers[last.mgr].global_privacy_budget )
  => /\ last.outcome = "ok"
     /\ Len(last.ret_list) = Min(last.k, Len(last.items))
     /\ \A i \in 1..Len(last.ret_list) :
          \E j \in 1..Len(last.items) : last.items[j][1] = last.ret_list[i][1]
     /\ \A i, j \in 1..Len(last.ret_list) :
          i # j => last.ret_list[i][1] # last.ret_list[j][1]
     /\ \A i \in 1..(Len(last.ret_list) - 1) :
          last.ret_list[i][2] >= last.ret_list[i + 1][2]

\* two of three items came back, the better noisy score first
C27_Witness ==
  /\ last.op = "private_top_k"
  /\ last.outcome = "ok"
  /\ last.k = 2
  /\ Len(last.items) = 3
  /\ Len(last.ret_list) = 2
  /\ last.ret_list[1][2] > last.ret_list[2][2]

\* ---------------------------------------------------------------- ranking
\* the results the tasks of the query in progress have collected so far
Collected == Flatten(query.silo_results)

\* C28: ranking the collected results and ranking the ranked list again
\* give the same list.
C28_RankingIdempotent ==
  RankResults(RankResults(Collected)) = RankResults(Collected)

\* the ranking moved results, and two of them have the same ranking score
C28_Witness ==
  /\ query.pc = "gather"
  /\ query.pending = <<>>
  /\ RankResults(Collected) # Collected
  /\ \E i, j \in 1..Len(Collected) :
       /\ i # j
       /\ WeightedScore(Collected[i], Collected) = WeightedScore(Collected[j], Collected)

\* ----------------------------------------------------------- custom rules
\* the ordinal of a clearance: public < confidential < secret < top_secret
ClearanceOrder ==
  [c \in {"public", "confidential", "secret", "top_secret"} |->
     CASE c = "public" -> 0 [] c = "confidential" -> 1
       [] c = "secret" -> 2 [] OTHER -> 3]

\* what the caller gave the user under the keyword, nothing when absent
GivenSet(kwargs, key) == IF key \in DOMAIN kwargs THEN kwargs[key] ELSE {}

\* a configured custom rule the user of the call does not meet
UnmetCustomRule(rules, kwargs) ==
  \/ /\ "forbidden_users" \in DOMAIN rules
     /\ kwargs.user_id \in rules.forbidden_users
  \/ /\ "required_roles" \in DOMAIN rules
     /\ rules.required_roles \cap GivenSet(kwargs, "roles") = {}
  \/ /\ "required_projects" \in DOMAIN rules
     /\ rules.required_projects \cap GivenSet(kwargs, "project_access") = {}
  \/ /\ "min_security_clearance" \in DOMAIN rules
     /\ \/ "security_clearance" \notin DOMAIN kwargs
        \/ ClearanceOrder[kwargs.security_clearance]
             < ClearanceOrder[rules.min_security_clearance]

\* C29: the custom-rules check answers false when the user is among the
\* forbidden users, when required roles or projects are configured that the
\* user has none of, or when a minimum clearance is configured that the
\* user's clearance does not reach (no clearance reaches none); it answers
\* true when none of the four rules is configured.
C29_CustomRulesDeny ==
  last.op = "_check_custom_rules"
  => /\ UnmetCustomRule(last.silo.access_rules, last.kwargs) => last.ret = FALSE
     /\ DOMAIN last.silo.access_rules
          \cap {"forbidden_users", "required_roles", "required_projects",
                "min_security_clearance"} = {}
        => last.ret = TRUE

\* a user without clearance was refused by a silo that asks for public
C29_Witness ==
  /\ last.op = "_check_custom_rules"
  /\ DOMAIN last.silo.access_rules = {"min_security_clearance"}
  /\ last.silo.access_rules.min_security_clearance = "public"
  /\ "security_clearance" \notin DOMAIN last.kwargs
  /\ last.ret = FALSE

\* -------------------------------------------------------- optional fields
\* C30: check_silo_access returns a boolean, and raises nothing, whatever
\* optional fields the silo and the user lack and whatever the values of
\* the temporal constraints and clearances are.
C30_NeverRaises ==
  last.op = "check_silo_access" => last.outcome = "ok" /\ last.ret \in BOOLEAN

\* ------------------------------------------- the two classification gates
\* C31: the query engine's classification gate and the permission engine's
\* classification check give the same outcome for every classification and
\* every set of access levels of the user, the empty set included.
C31_GatesAgree ==
  last.op = "_check_data_classification_access" =>
    last.outcome = IF CheckClassificationAccess(last.silo, last.user)
                   THEN "true" ELSE "false"

\* --------------------------------------------------- the slices of a query
\* the documents of silo s the search of the query in progress can hit
HitsOf(s) ==
  Min(2 * query.max_results,
      Cardinality({i \in 1..Len(query.sim[s]) :
                     query.sim[s][i][2] < silo_indexes[s].ntotal}))

AboveUser(given, kwargs) ==
  \A l \in kwargs.access_levels :
    ClassificationLevel(l, 0) < ClassificationLevel(given.access_level, 3)
SaysNoSynthesis(given) ==
  /\ "synthesis_restrictions" \in DOMAIN given
  /\ "no_synthesis" \in DOMAIN given.synthesis_restrictions
  /\ given.synthesis_restrictions.no_synthesis
BelowMinConfidence(given) ==
  /\ "synthesis_restrictions" \in DOMAIN given
  /\ "min_confidence_for_synthesis" \in DOMAIN given.synthesis_restrictions
  /\ given.relevance_score < given.synthesis_restrictions.min_confidence_for_synthesis
MustBeWithheld(given, kwargs) ==
  \/ AboveUser(given, kwargs) /\ given.access_level # "public"
  \/ SaysNoSynthesis(given)
  \/ BelowMinConfidence(given)

\* C33: check_synthesis_access is false for a result whose level is above
\* the user's highest, for one carrying a no_synthesis restriction and for
\* one whose relevance is below its min_confidence_for_synthesis; the
\* source_results of a synthesis hold none of these.
C33_SynthesisAccess ==
  /\ last.op = "check_synthesis_access" =>
        (MustBeWithheld(last.given, last.kwargs) => last.ret = FALSE)
  /\ last.op = "synthesize_answers" =>
        Len(last.source_results)
          <= Cardinality({i \in DOMAIN last.given :
                           ~MustBeWithheld(last.given[i], last.kwargs)})

\* ------------------------------------------------------ the silo indexes
\* C34: for every indexed silo, whatever index_silo and update_silo_index
\* operations came before, the list of secure hashes has one entry per
\* document: as many as the document counter says and as the search
\* structure holds vectors.
C34_OneHashPerDocument ==
  \A s \in DOMAIN silo_indexes :
    /\ silo_indexes[s].secure_hashes = silo_indexes[s].document_count
    /\ silo_indexes[s].secure_hashes = silo_indexes[s].ntotal

\* ---------------------------------------------------- the returned scores
\* C35: every result route_query returns has a relevance_score within
\* [0, 1], whatever raw similarity the silo's search gave and whether or not
\* the budget sufficed to noise it.
C35_RelevanceInRange ==
  query.outcome = "returned" =>
    \A i \in 1..Len(query.final_results) :
      /\ 0 <= query.final_results[i].relevance_score
      /\ query.final_results[i].relevance_score <= ScoreScale

\* ------------------------------------------------- the budget of a query
\* C36: one route_query call increases the used budget of the query
\* engine's privacy manager by at most the request's privacy_budget, however
\* many silos are accessible and however many hits each gives.  (The
\* engine's manager starts at 0 and only queries consume from it.)
C36_QueryWithinItsBudget ==
  queries_started = 1 =>
    managers[EnginePM].used_privacy_budget <= query.privacy_budget

\* ------------------------------------------------ the cost of a top-k call
\* C37: a private_top_k call that succeeds on a non-empty item map
\* increases used_budget by exactly its epsilon, the noising of the
\* selected scores included.
C37_TopKCostsEpsilon ==
  ( /\ last.op = "private_top_k"
    /\ last.outcome = "ok"
    /\ last.items # <<>> )
  => managers[last.mgr].used_privacy_budget = last.used_before + last.eps

\* --------------------------------------------------------- the cache keys
\* C38: two different (user_id, silo_id) pairs never share a cache entry,
\* whatever characters the ids hold: a decision that comes from the cache was
\* computed for the same user_id and silo_id.  With one user per user id, one
\* silo per silo id and rules that do not change with time, such a decision
\* is the one the five checks give the pair.
C38_PairsDoNotShareEntries ==
  ( /\ last.op = "check_silo_access"
    /\ last.found # <<>>
    /\ last.t - last.found[1].cached_time < CacheTTL )
  => last.ret = FiveChecks(last.silo, last.user, last.t)

\* ------------------------------------------------ the request's silo lists
\* C39: no result route_query returns comes from a silo the request lists
\* in exclude_silos, and when the request gives include_silos every result
\* comes from a silo listed there.
C39_SiloListsHonoured ==
  query.outcome = "returned" =>
    \A i \in 1..Len(query.final_results) :
      /\ query.exclude_silos # <<>> =>
           query.final_results[i].silo_id \notin query.exclude_silos[1]
      /\ query.include_silos # <<>> =>
           query.final_results[i].silo_id \in query.include_silos[1]

\* ------------------------------------------------- a failed indexing job
\* C40: an indexing job that fails, for lack of the 0.1 of budget a run
\* needs or otherwise, leaves the silo indexes as they were: a silo without
\* an index still has none, an indexed silo keeps the index it had, and the
\* index of no other silo changes.
C40_FailedJobLeavesIndexes ==
  [][ last'.op \in {"_index_silo", "build_global_index"} =>
        \A s \in SiloIds :
          (~ \E i \in 1..Len(last'.jobs) :
               last'.jobs[i].silo_id = s /\ last'.jobs[i].status = "completed")
          => /\ s \in DOMAIN silo_indexes' <=> s \in DOMAIN silo_indexes
             /\ s \in DOMAIN silo_indexes => silo_indexes'[s] = silo_indexes[s]
    ]_vars

\* s1 was indexed and updated, the budget was used up, and a second
\* indexing of s1 failed for lack of budget: its index is still the updated
\* one, and s2 has none
C40_Witness ==
  /\ last.op = "_index_silo"
  /\ last.silos = <<"s1">>
  /\ last.jobs[1].status = "failed"
  /\ last.jobs[1].error_message = InsufficientBudget
  /\ DOMAIN silo_indexes = {"s1"}
  /\ silo_indexes["s1"].document_count = MockDocuments + 1

====
